---- MODULE Spec2Model ----
(***************************************************************************)
(* Particle Life simulation kernel: ParticleSimulation (src/src/           *)
(* simulation.ts, lines 578-1017) and SpatialHash (src/src/                *)
(* spatial-hash.ts, lines 1-81).                                           *)
(*                                                                         *)
(* Numbers.  A JavaScript number is modelled as an integer: a finite value *)
(* in fixed point (units of 1/Scale, magnitude at most MaxFinite), or one  *)
(* of three codes beyond the finite range for NaN, +Infinity, -Infinity.   *)
(* Arithmetic goes through the operators below only; they follow the       *)
(* IEEE-754 rules of the JavaScript operators for the special values.      *)
(* Finite results are rounded to the nearest 1/Scale instead of the        *)
(* nearest double, and there is no negative zero.                          *)
(***************************************************************************)
EXTENDS Integers, Sequences, FiniteSets, TLC

Scale == 100
\* the largest finite magnitude, in units of 1/Scale; a finite result beyond
\* it overflows to an infinity, as a double does beyond Number.MAX_VALUE
MaxFinite == 10000000

PInf == MaxFinite + 1
NInf == -(MaxFinite + 1)
NaN == MaxFinite + 2

IsNaN(a) == a = NaN
IsInf(a) == a = PInf \/ a = NInf
IsFinite(a) == a >= -MaxFinite /\ a <= MaxFinite

Sgn(n) == IF n > 0 THEN 1 ELSE IF n < 0 THEN -1 ELSE 0
AbsI(n) == IF n < 0 THEN -n ELSE n
Inf(s) == IF s > 0 THEN PInf ELSE NInf

\* the number with n units of 1/Scale, and the whole number n
F(n) == IF n > MaxFinite THEN PInf ELSE IF n < -MaxFinite THEN NInf ELSE n
R(n) == F(n * Scale)
Zero == 0
One == Scale

\* n / d rounded to the nearest integer, ties away from zero (d # 0)
RoundDiv(n, d) == Sgn(n) * Sgn(d) * ((2 * AbsI(n) + AbsI(d)) \div (2 * AbsI(d)))

RECURSIVE ISqrtIter(_, _, _)
ISqrtIter(n, lo, hi) ==
  IF lo >= hi THEN lo
  ELSE LET mid == (lo + hi + 1) \div 2
       IN IF mid * mid <= n THEN ISqrtIter(n, mid, hi) ELSE ISqrtIter(n, lo, mid - 1)

\* floor of the square root of n >= 0
ISqrt(n) == ISqrtIter(n, 0, IF n < 31623 THEN n ELSE 31623)

Neg(a) == IF IsNaN(a) THEN NaN ELSE -a

Add(a, b) ==
  IF IsNaN(a) \/ IsNaN(b) THEN NaN
  ELSE IF IsInf(a) /\ IsInf(b) THEN (IF a = b THEN a ELSE NaN)
  ELSE IF IsInf(a) THEN a
  ELSE IF IsInf(b) THEN b
  ELSE F(a + b)

Sub(a, b) == Add(a, Neg(b))

Mul(a, b) ==
  IF IsNaN(a) \/ IsNaN(b) THEN NaN
  ELSE IF IsInf(a) \/ IsInf(b)
       THEN (IF a = 0 \/ b = 0 THEN NaN ELSE Inf(Sgn(a) * Sgn(b)))
  ELSE IF a = 0 \/ b = 0 THEN 0
  ELSE IF AbsI(b) > (MaxFinite * Scale) \div AbsI(a) THEN Inf(Sgn(a) * Sgn(b))
  ELSE F(RoundDiv(a * b, Scale))

Div(a, b) ==
  IF IsNaN(a) \/ IsNaN(b) THEN NaN
  ELSE IF IsInf(a) THEN (IF IsInf(b) THEN NaN
                         ELSE Inf(Sgn(a) * (IF b < 0 THEN -1 ELSE 1)))
  ELSE IF IsInf(b) THEN 0
  ELSE IF b = 0 THEN (IF a = 0 THEN NaN ELSE Inf(Sgn(a)))
  ELSE F(RoundDiv(a * Scale, b))

\* the JavaScript remainder a % b: the sign of the dividend, exact
Mod(a, b) ==
  IF IsNaN(a) \/ IsNaN(b) \/ IsInf(a) THEN NaN
  ELSE IF IsInf(b) THEN a
  ELSE IF b = 0 THEN NaN
  ELSE Sgn(a) * (AbsI(a) % AbsI(b))

\* a < b, a > b, a >= b, a <= b: false as soon as one side is NaN
Lt(a, b) == ~IsNaN(a) /\ ~IsNaN(b) /\ a < b
Gt(a, b) == Lt(b, a)
Ge(a, b) == ~IsNaN(a) /\ ~IsNaN(b) /\ a >= b
Le(a, b) == Ge(b, a)

MathMax(a, b) == IF IsNaN(a) \/ IsNaN(b) THEN NaN ELSE IF a < b THEN b ELSE a
MathMin(a, b) == IF IsNaN(a) \/ IsNaN(b) THEN NaN ELSE IF b < a THEN b ELSE a

MathFloor(a) == IF IsFinite(a) THEN (a \div Scale) * Scale ELSE a
MathCeil(a) == IF IsFinite(a) THEN -(((-a) \div Scale) * Scale) ELSE a

MathSqrt(a) ==
  IF IsNaN(a) \/ a < 0 THEN NaN
  ELSE IF a = PInf THEN PInf
  ELSE ISqrt(a * Scale)

MathAbs(a) == IF IsNaN(a) THEN NaN ELSE AbsI(a)

\* Math.PI
Pi == F(314)

\* the sine of x in [0, Pi]: 16 x (Pi - x) / (5 Pi^2 - 4 x (Pi - x)), which is
\* within 0.002 of it, 0 at 0 and at Pi and 1 at Pi / 2
HalfTurn(x) == RoundDiv(Scale * 16 * x * (Pi - x), 5 * Pi * Pi - 4 * x * (Pi - x))

\* the sine of m in [0, 2 Pi)
SinReduced(m) == IF m <= Pi THEN HalfTurn(m) ELSE -HalfTurn(m - Pi)

MathSin(a) == IF IsFinite(a) THEN SinReduced(a % (2 * Pi)) ELSE NaN
MathCos(a) == IF IsFinite(a) THEN SinReduced((a + Pi \div 2) % (2 * Pi)) ELSE NaN

\* ToInt32(a) & 0xffff for a number a with an integral value
Low16(a) == IF IsFinite(a) THEN (a \div Scale) % 65536 ELSE 0

(***************************************************************************)
(* Program constants and the state of one ParticleSimulation.              *)
(***************************************************************************)
PARTICLE_TYPES == 6
energyHistoryMax == 200
EnergySamplePeriod == 6

Species == 0 .. (PARTICLE_TYPES - 1)

\* a particle type that indexes a row of the rule matrix
IsSpecies(t) == IsFinite(t) /\ t % Scale = 0 /\ (t \div Scale) \in Species
TypeIdx(t) == t \div Scale

VARIABLES particles, config, width, height, spatialHash, mouseForce,
          energyHistory, energySampleCounter, maxSpeedObserved,
          rng, nextId, err, op, pre, forceLog, origin, ops, limit,
          steps, taken, caller

\* Bookkeeping next to the program's state: rng and nextId (the random
\* generator and the identity of particle objects), err (the last operation
\* raised), op and pre (the last operation and the state before it), forceLog
\* (the neighbours each particle met in the last step), origin (who built the
\* population), ops and limit (operations so far and their bound), steps (the
\* step() calls that ran to their end), taken (every energy snapshot taken)
\* and caller (the rule matrix of the config object last handed over).
\* the program's own state (what `pre` snapshots before each operation)
progVars == <<particles, config, width, height, spatialHash, mouseForce,
              energyHistory, energySampleCounter, maxSpeedObserved>>
vars == <<particles, config, width, height, spatialHash, mouseForce,
          energyHistory, energySampleCounter, maxSpeedObserved,
          rng, nextId, err, op, pre, forceLog, origin, ops, limit,
          steps, taken, caller>>

Snapshot ==
  [particles |-> particles, config |-> config, width |-> width, height |-> height,
   spatialHash |-> spatialHash, mouseForce |-> mouseForce,
   energyHistory |-> energyHistory, energySampleCounter |-> energySampleCounter,
   maxSpeedObserved |-> maxSpeedObserved]

(***************************************************************************)
(* Math.random(): a pseudo-random generator whose state is the position    *)
(* rng in a fixed cycle of fractions in [0, 1).                            *)
(***************************************************************************)
RandSeq == <<F(0), F(99), F(50), F(25)>>
RandLen == Len(RandSeq)
\* the k-th next draw (k = 0 is the next one) and the state after c draws
Rand(r, k) == RandSeq[((r - 1 + k) % RandLen) + 1]
RngAfter(r, c) == ((r - 1 + c) % RandLen) + 1

(***************************************************************************)
(* SpatialHash                                                             *)
(***************************************************************************)
NullHash == [null |-> TRUE, cellSize |-> Zero, cellsW |-> Zero, cellsH |-> Zero,
             grid |-> <<>>]

\* variant: setWorldSize is not called on the new index
NewHash_Unsized(cellSize, w, h) ==
  [null |-> FALSE, cellSize |-> MathMax(cellSize, One), cellsW |-> Zero, cellsH |-> Zero,
   grid |-> <<>>]

\* variant: the cell size is taken as given
NewHash_Unclamped(cellSize, w, h) ==
  [null |-> FALSE, cellSize |-> cellSize,
   cellsW |-> MathMax(One, MathCeil(Div(w, cellSize))),
   cellsH |-> MathMax(One, MathCeil(Div(h, cellSize))),
   grid |-> <<>>]

\* new SpatialHash(cellSize) followed by setWorldSize(w, h)
NewHash(cellSize, w, h) ==
  LET cs == MathMax(cellSize, One)
  IN [null |-> FALSE, cellSize |-> cs,
      cellsW |-> MathMax(One, MathCeil(Div(w, cs))),
      cellsH |-> MathMax(One, MathCeil(Div(h, cs))),
      grid |-> <<>>]

\* key(cx, cy): ((cx & 0xffff) << 16) | (cy & 0xffff), kept as the pair
Key(cx, cy) == <<Low16(cx), Low16(cy)>>

CellOf(cs, x) == MathFloor(Div(x, cs))

\* the grid is the sequence of <<key, particle id>> in insertion order:
\* bucket k is the subsequence of the entries with key k
GridAdd(grid, cs, p) == Append(grid, <<Key(CellOf(cs, p.x), CellOf(cs, p.y)), p.id>>)

\* variant: the entries of the index are not cleared before the rebuild
RECURSIVE GridBuild_NoClear(_, _, _, _)
GridBuild_NoClear(grid, cs, ps, i) ==
  IF i > Len(ps) THEN spatialHash.grid \o grid
  ELSE GridBuild_NoClear(GridAdd(grid, cs, ps[i]), cs, ps, i + 1)

RECURSIVE GridBuild(_, _, _, _)
GridBuild(grid, cs, ps, i) ==
  IF i > Len(ps) THEN grid ELSE GridBuild(GridAdd(grid, cs, ps[i]), cs, ps, i + 1)

RECURSIVE Bucket(_, _, _)
Bucket(grid, key, i) ==
  IF i > Len(grid) THEN <<>>
  ELSE IF grid[i][1] = key THEN <<grid[i][2]>> \o Bucket(grid, key, i + 1)
  ELSE Bucket(grid, key, i + 1)

WrapCell(nc, cells) ==
  IF Lt(nc, Zero) THEN Add(nc, cells)
  ELSE IF Ge(nc, cells) THEN Sub(nc, cells)
  ELSE nc

Offsets == <<-1, 0, 1>>

\* getNearby(x, y): the ids in the 3 x 3 block of buckets, dx outer, dy inner
RECURSIVE NearbyFrom(_, _, _, _)
NearbyFrom(h, cx, cy, n) ==
  IF n > 9 THEN <<>>
  ELSE Bucket(h.grid,
              Key(WrapCell(Add(cx, R(Offsets[((n - 1) \div 3) + 1])), h.cellsW),
                  WrapCell(Add(cy, R(Offsets[((n - 1) % 3) + 1])), h.cellsH)), 1)
       \o NearbyFrom(h, cx, cy, n + 1)

GetNearby(h, x, y) == NearbyFrom(h, CellOf(h.cellSize, x), CellOf(h.cellSize, y), 1)

(***************************************************************************)
(* The force law and one simulation step (ParticleSimulation.update)       *)
(***************************************************************************)
\* variant: the close-range repulsion lacks its offset
particleLifeForce_NoOffset(normalizedDist, attraction, beta) ==
  IF Lt(normalizedDist, beta) THEN Div(normalizedDist, beta)
  ELSE IF Lt(normalizedDist, One)
       THEN Mul(attraction,
                Sub(One, Div(MathAbs(Sub(Sub(Mul(R(2), normalizedDist), One), beta)),
                             Sub(One, beta))))
  ELSE Zero

\* variant: the mid-range force does not scale with the rule value
particleLifeForce_Unscaled(normalizedDist, attraction, beta) ==
  IF Lt(normalizedDist, beta) THEN Sub(Div(normalizedDist, beta), One)
  ELSE IF Lt(normalizedDist, One)
       THEN Sub(One, Div(MathAbs(Sub(Sub(Mul(R(2), normalizedDist), One), beta)),
                         Sub(One, beta)))
  ELSE Zero

particleLifeForce(normalizedDist, attraction, beta) ==
  IF Lt(normalizedDist, beta) THEN Sub(Div(normalizedDist, beta), One)
  ELSE IF Lt(normalizedDist, One)
       THEN Mul(attraction,
                Sub(One, Div(MathAbs(Sub(Sub(Mul(R(2), normalizedDist), One), beta)),
                             Sub(One, beta))))
  ELSE Zero

\* beta = Math.max(0.01, Math.min(0.99, minRadius / maxRadius))
BetaOf(cfg) == MathMax(F(1), MathMin(F(99), Div(cfg.minRadius, cfg.maxRadius)))

\* if (dx > half) dx -= size; else if (dx < -half) dx += size
WrapBy(d, size, half) ==
  IF Gt(d, half) THEN Sub(d, size)
  ELSE IF Lt(d, Neg(half)) THEN Add(d, size)
  ELSE d

\* dx after the toroidal wrap, halfW = w / 2
WrapDelta(d, size) == WrapBy(d, size, Div(size, R(2)))

ParticleById(ps, id) == ps[CHOOSE i \in 1 .. Len(ps) : ps[i].id = id]

\* rules[p.type][other.type]; a missing entry is undefined, NaN in arithmetic
RuleAt(cfg, p, other) ==
  IF IsSpecies(other.type) THEN cfg.rules[TypeIdx(p.type)][TypeIdx(other.type)] ELSE NaN

\* fx += (dx / d) * f; fy += (dy / d) * f; neighborCount++
AddForce(acc, other, dx, dy, d, f) ==
  [fx |-> Add(acc.fx, Mul(Div(dx, d), f)),
   fy |-> Add(acc.fy, Mul(Div(dy, d), f)),
   n |-> acc.n + 1, thrown |-> FALSE,
   log |-> Append(acc.log, [id |-> other.id, dx |-> dx, dy |-> dy])]

\* f = particleLifeForce(d * invR, pRules[other.type], beta) * forceStrength
Attract(cfg, p, other, dx, dy, d, acc) ==
  AddForce(acc, other, dx, dy, d,
           Mul(particleLifeForce(Mul(d, Div(One, cfg.maxRadius)),
                                 RuleAt(cfg, p, other), BetaOf(cfg)),
               cfg.forceStrength))

\* if (dSq >= rSq || dSq < 0.01) continue; d = Math.sqrt(dSq)
InRange(cfg, p, other, dx, dy, dSq, acc) ==
  IF Ge(dSq, Mul(cfg.maxRadius, cfg.maxRadius)) \/ Lt(dSq, F(1)) THEN acc
  ELSE IF ~IsSpecies(p.type)
       \* pRules is undefined: pRules[other.type] raises a TypeError
       THEN [acc EXCEPT !.thrown = TRUE]
  ELSE Attract(cfg, p, other, dx, dy, MathSqrt(dSq), acc)

\* dSq = dx * dx + dy * dy
Displaced(cfg, p, other, dx, dy, acc) ==
  InRange(cfg, p, other, dx, dy, Add(Mul(dx, dx), Mul(dy, dy)), acc)

\* the body of the inner loop for one neighbour: if (other === p) continue
Interact(cfg, w, h, p, other, acc) ==
  IF other.id = p.id THEN acc
  ELSE Displaced(cfg, p, other, WrapDelta(Sub(other.x, p.x), w),
                 WrapDelta(Sub(other.y, p.y), h), acc)

\* one pass of the inner loop over `nearby` for particle p, from position j on;
\* acc = [fx, fy, n, thrown, log]
RECURSIVE Accumulate(_, _, _, _, _, _, _, _)
Accumulate(cfg, w, h, ps, p, nearby, j, acc) ==
  IF j > Len(nearby) \/ acc.thrown THEN acc
  ELSE Accumulate(cfg, w, h, ps, p, nearby, j + 1,
                  Interact(cfg, w, h, p, ParticleById(ps, nearby[j]), acc))

\* mfStrength = mf.strength * falloff * 3, falloff = 1 - md / mf.radius
MousePull(mf, mdx, mdy, md) ==
  [on |-> TRUE,
   fx |-> Mul(Div(mdx, md), Mul(Mul(mf.strength, Sub(One, Div(md, mf.radius))), R(3))),
   fy |-> Mul(Div(mdy, md), Mul(Mul(mf.strength, Sub(One, Div(md, mf.radius))), R(3)))]

\* if (mfActive && mdSq < mfRadiusSq && mdSq > 1)
MouseNear(mf, mdx, mdy, mdSq) ==
  IF mf.active /\ mf.strength # Zero /\ Lt(mdSq, Mul(mf.radius, mf.radius)) /\ Gt(mdSq, One)
  THEN MousePull(mf, mdx, mdy, MathSqrt(mdSq))
  ELSE [on |-> FALSE, fx |-> Zero, fy |-> Zero]

MouseAt(mf, mdx, mdy) == MouseNear(mf, mdx, mdy, Add(Mul(mdx, mdx), Mul(mdy, mdy)))

\* the pointer force on p: [on, fx, fy]
MouseTerm(mf, p) == MouseAt(mf, Sub(mf.x, p.x), Sub(mf.y, p.y))

\* the neighbour force plus the pointer force
NetForce(acc, m) ==
  [fx |-> IF m.on THEN Add(acc.fx, m.fx) ELSE acc.fx,
   fy |-> IF m.on THEN Add(acc.fy, m.fy) ELSE acc.fy,
   thrown |-> acc.thrown, log |-> acc.log]

\* the net force on particle ps[i], computed against the rebuilt index hs
ForceOn(cfg, w, h, mf, hs, ps, i) ==
  NetForce(Accumulate(cfg, w, h, ps, ps[i], GetNearby(hs, ps[i].x, ps[i].y), 1,
                      [fx |-> Zero, fy |-> Zero, n |-> 0, thrown |-> FALSE, log |-> <<>>]),
           MouseTerm(mf, ps[i]))

\* p.vx = p.vx * (1 - friction) + fx * dt, dt = speed * 0.5
ApplyForce(cfg, p, f) ==
  [p EXCEPT !.vx = Add(Mul(p.vx, Sub(One, cfg.friction)), Mul(f.fx, Mul(cfg.speed, F(50)))),
            !.vy = Add(Mul(p.vy, Sub(One, cfg.friction)), Mul(f.fy, Mul(cfg.speed, F(50))))]

\* variant: a single pass, in which a particle's position is advanced as soon
\* as its velocity has been updated
Forced_Moving(cfg, out, i, f) ==
  IF f.thrown THEN [out EXCEPT !.thrown = TRUE]
  ELSE [ps |-> [out.ps EXCEPT
                  ![i] = [ApplyForce(cfg, out.ps[i], f) EXCEPT
                            !.x = Add(@, ApplyForce(cfg, out.ps[i], f).vx),
                            !.y = Add(@, ApplyForce(cfg, out.ps[i], f).vy)]],
        thrown |-> FALSE,
        log |-> Append(out.log, f.log)]

\* the force loop's effect on particle i, given its net force f
Forced(cfg, out, i, f) ==
  IF f.thrown THEN [out EXCEPT !.thrown = TRUE]
  ELSE [ps |-> [out.ps EXCEPT ![i] = ApplyForce(cfg, out.ps[i], f)],
        thrown |-> FALSE,
        log |-> Append(out.log, f.log)]

\* the force loop from particle i on: out = [ps, thrown, log]; it stops at the
\* particle whose force computation raises
RECURSIVE ForceLoop(_, _, _, _, _, _, _)
ForceLoop(cfg, w, h, mf, hs, i, out) ==
  IF i > Len(out.ps) \/ out.thrown THEN out
  ELSE ForceLoop(cfg, w, h, mf, hs, i + 1,
                 Forced(cfg, out, i, ForceOn(cfg, w, h, mf, hs, out.ps, i)))

\* variant: the cap is at twice maxVel
ClampVel_Twice(v, maxVel) ==
  IF Gt(v, Mul(R(2), maxVel)) THEN Mul(R(2), maxVel)
  ELSE IF Lt(v, Neg(Mul(R(2), maxVel))) THEN Neg(Mul(R(2), maxVel))
  ELSE v

\* variant: only the upper cap is applied
ClampVel_OneSided(v, maxVel) == IF Gt(v, maxVel) THEN maxVel ELSE v

ClampVel(v, maxVel) ==
  IF Gt(v, maxVel) THEN maxVel
  ELSE IF Lt(v, Neg(maxVel)) THEN Neg(maxVel)
  ELSE v

\* variant: x % w, which keeps the sign of x
WrapPos_NoShift(x, w) == Mod(x, w)

\* ((x % w) + w) % w
WrapPos(x, w) == Mod(Add(Mod(x, w), w), w)

\* p.x += p.vx; p.y += p.vy; a position that is not finite is drawn anew with
\* zero velocity, any other is wrapped; out = [p, used (draws), spd]
Placed(p, vx, vy, x, y, w, h, r) ==
  IF ~IsFinite(x) \/ ~IsFinite(y)
  THEN [p |-> [p EXCEPT !.x = Mul(Rand(r, 0), w), !.y = Mul(Rand(r, 1), h),
                        !.vx = Zero, !.vy = Zero],
        used |-> 2, spd |-> Add(Mul(vx, vx), Mul(vy, vy))]
  ELSE [p |-> [p EXCEPT !.x = WrapPos(x, w), !.y = WrapPos(y, h),
                        !.vx = vx, !.vy = vy],
        used |-> 0, spd |-> Add(Mul(vx, vx), Mul(vy, vy))]

\* if (!isFinite(p.vx) || !isFinite(p.vy)) { p.vx = 0; p.vy = 0 }, on the
\* clamped velocity
Guarded(p, cvx, cvy, w, h, r) ==
  IF ~IsFinite(cvx) \/ ~IsFinite(cvy)
  THEN Placed(p, Zero, Zero, Add(p.x, Zero), Add(p.y, Zero), w, h, r)
  ELSE Placed(p, cvx, cvy, Add(p.x, cvx), Add(p.y, cvy), w, h, r)

\* a move whose particle was drawn anew becomes a move of another object
Renewed(m) == IF m.used = 2 THEN [m EXCEPT !.p.id = -m.p.id] ELSE m

\* variant: a particle whose position is not finite is replaced by a new object
MoveOne_NewObject(p, maxVel, w, h, r) ==
  Renewed(Guarded(p, ClampVel(p.vx, maxVel), ClampVel(p.vy, maxVel), w, h, r))

\* the safety pass on one particle; r is the generator state before it
MoveOne(p, maxVel, w, h, r) ==
  Guarded(p, ClampVel(p.vx, maxVel), ClampVel(p.vy, maxVel), w, h, r)

\* the move loop's effect on particle i, given its move m
Moved(out, i, m) ==
  [ps |-> [out.ps EXCEPT ![i] = m.p],
   rng |-> RngAfter(out.rng, m.used),
   maxSpd |-> IF Gt(m.spd, out.maxSpd) THEN m.spd ELSE out.maxSpd]

\* out = [ps, rng, maxSpd]
RECURSIVE MoveLoop(_, _, _, _, _)
MoveLoop(maxVel, w, h, i, out) ==
  IF i > Len(out.ps) THEN out
  ELSE MoveLoop(maxVel, w, h, i + 1,
                Moved(out, i, MoveOne(out.ps[i], maxVel, w, h, out.rng)))

\* if (this.maxSpeedObserved < 0.1) this.maxSpeedObserved = 0.1
AtLeastTenth(s) == IF Lt(s, F(10)) THEN F(10) ELSE s

\* maxSpeedObserved * 0.95 + sqrt(maxSpd) * 0.05, floored at 0.1
SmoothMax(old, maxSpd) ==
  AtLeastTenth(Add(Mul(old, F(95)), Mul(MathSqrt(maxSpd), F(5))))

\* counts[p.type]++; energies[p.type] += Math.sqrt(p.vx * p.vx + p.vy * p.vy)
RECURSIVE SumSpeed(_, _, _, _)
SumSpeed(ps, t, i, acc) ==
  IF i > Len(ps) THEN acc
  ELSE SumSpeed(ps, t, i + 1,
         IF ps[i].type = R(t)
         THEN [count |-> acc.count + 1,
               energy |-> Add(acc.energy,
                              MathSqrt(Add(Mul(ps[i].vx, ps[i].vx),
                                           Mul(ps[i].vy, ps[i].vy))))]
         ELSE acc)

\* counts[t] > 0 ? energies[t] / counts[t] : 0
MeanSpeed(s) == IF s.count > 0 THEN Div(s.energy, R(s.count)) ELSE Zero

\* sampleEnergy(): the snapshot, then the history after push and shift
EnergySnapshot(ps) ==
  [t \in Species |-> MeanSpeed(SumSpeed(ps, t, 1, [count |-> 0, energy |-> Zero]))]

\* variant: a full history drops the new sample instead of the oldest
Shifted_DropNewest(pushed) ==
  IF Len(pushed) > energyHistoryMax THEN SubSeq(pushed, 1, Len(pushed) - 1) ELSE pushed

\* if (this.energyHistory.length > this.energyHistoryMax) this.energyHistory.shift()
Shifted(pushed) == IF Len(pushed) > energyHistoryMax THEN Tail(pushed) ELSE pushed

SampleEnergy(hist, ps) == Shifted(Append(hist, EnergySnapshot(ps)))

(***************************************************************************)
(* Bounds of the model and the inputs the operations are called with.      *)
(***************************************************************************)
MaxParticles == 3
MaxOps == 3
MaxRunOps == 4
\* steps of a sampling run: enough for 202 samples
MaxLongOps == 1212
\* operations of a cadence run: enough for two samples
MaxCadenceOps == 12
\* operations of a layout run
MaxLayoutOps == 3
\* calls of the force law in a run of calls
MaxForceOps == 2
\* operations of a config run
MaxConfigOps == 3
\* calls made on one spatial index
MaxHashOps == 4
\* operations of an aliasing run
MaxAliasOps == 4
\* steps of a mutation run
MaxMutationOps == 500
\* operations of a pointer run
MaxPointerOps == 4

ConstRules(a) == [i \in Species |-> [j \in Species |-> a]]
ZeroRules == ConstRules(Zero)
AttractRules == ConstRules(One)
\* DEFAULT_CONFIG.rules
DefaultRules ==
  [i \in Species |-> [j \in Species |->
     F(<< <<10, -20, 30, -10, 20, -30>>, <<-20, 10, -30, 20, -10, 30>>,
          <<30, -30, 10, 20, -20, 10>>, <<-10, 20, 20, 10, -30, -20>>,
          <<20, -10, -20, -30, 10, 30>>, <<-30, 30, 10, -20, 30, 10>> >>[i + 1][j + 1])]]
\* a matrix an unvalidated editor can hand over
WildRules == [i \in Species |-> [j \in Species |->
                IF i = j THEN NaN ELSE IF i < j THEN PInf ELSE R(-5)]]

Cfg(n, speed, friction, maxR, minR, strength, rules) ==
  [particleCount |-> n, speed |-> speed, friction |-> friction, maxRadius |-> maxR,
   minRadius |-> minR, forceStrength |-> strength, rules |-> rules]

\* the configs passed to the constructor and to updateConfig; lengths are in
\* world units, the world being about ten units wide
Configs ==
  { Cfg(2, One, F(50), R(3), One, One, DefaultRules),
    Cfg(2, One, F(50), R(3), One, One, ZeroRules),
    Cfg(MaxParticles, R(3), F(1), R(3), R(5), R(3), AttractRules),
    Cfg(0, One, F(50), R(-3), One, One, ZeroRules),
    Cfg(1, PInf, NaN, PInf, NaN, NInf, WildRules) }

\* the configs the constructor is called with
StartConfigs ==
  { Cfg(2, One, F(50), R(3), One, One, DefaultRules),
    Cfg(2, One, F(50), R(3), One, One, ZeroRules),
    Cfg(0, One, F(50), R(-3), One, One, ZeroRules),
    Cfg(1, PInf, NaN, PInf, NaN, NInf, WildRules) }

\* the sizes setDimensions is called with
Dims == { <<R(10), R(10)>>, <<R(10), Zero>>, <<Zero, R(6)>>, <<R(6), R(6)>>,
          <<F(80), R(6)>> }

Pt(x, y, vx, vy, t) == [x |-> x, y |-> y, vx |-> vx, vy |-> vy, type |-> R(t)]

\* populations written into the public `particles` field from outside
Placements ==
  { \* two particles inside each other's repulsion zone and a third at mid range
    << Pt(R(5), R(5), Zero, Zero, 0), Pt(F(550), R(5), Zero, Zero, 0),
       Pt(R(5), R(7), Zero, Zero, 1) >>,
    \* neighbours across the x wrap of a ten-unit world
    << Pt(F(50), R(5), Zero, Zero, 0), Pt(F(950), R(5), Zero, Zero, 0),
       Pt(R(8), R(5), Zero, Zero, 0) >>,
    \* corrupted fields
    << Pt(NaN, R(5), Zero, Zero, 0), Pt(R(-2), R(4), PInf, NInf, 1),
       Pt(R(4), NInf, NaN, One, 2) >>,
    \* the same with a particle whose finite velocity is beyond every cap
    << Pt(R(4), R(4), NInf, Zero, 3), Pt(PInf, R(4), One, NaN, 0),
       Pt(R(8), R(8), R(-50), R(70), 2) >>,
    \* one particle without a position among moving particles that are sound
    << Pt(NaN, R(5), Zero, Zero, 0), Pt(R(5), R(5), One, Zero, 1),
       Pt(R(8), R(8), Zero, F(50), 2) >> }

\* the pointer positions and strengths of handlePointerDown
PointerDowns == { [x |-> R(4), y |-> R(5), strength |-> F(150)],
                  [x |-> R(4), y |-> R(5), strength |-> F(-150)] }

LayoutKinds == {"random", "grid"}

\* the world sizes and the config updates of the long runs
RunDims == { <<R(10), R(10)>>, <<F(80), R(6)>> }
RunConfigs ==
  { Cfg(MaxParticles, R(3), F(1), R(3), R(5), R(3), AttractRules),
    Cfg(1, PInf, NaN, PInf, NaN, NInf, WildRules),
    Cfg(2, R(1000), Zero, R(90000), One, R(1000), DefaultRules) }

\* the config of the cadence runs: particles at rest under a zero rule matrix
CadenceConfig == Cfg(2, One, F(50), R(3), One, One, ZeroRules)

\* the mutation scenario of the tests, scaled to a ten-unit world: a radius
\* that lets every particle see every other, high friction, slow speed, and a
\* population with four particles of type 0 around one of type 1
MutationConfig == Cfg(5, F(10), F(95), R(4), One, F(10), DefaultRules)
MutationStart ==
  << Pt(R(5), R(5), Zero, Zero, 0), Pt(F(520), R(5), Zero, Zero, 0),
     Pt(F(480), R(5), Zero, Zero, 0), Pt(R(5), F(520), Zero, Zero, 0),
     Pt(R(5), F(490), Zero, Zero, 1) >>

\* the configs of the aliasing runs: two configs whose matrices differ
AliasConfigs ==
  { Cfg(2, One, F(50), R(5), One, One, DefaultRules),
    Cfg(2, One, F(50), R(5), One, One, ZeroRules) }

\* a config object with its rendering fields and toggles as well
Dressed(c, trail, size, glow, mode, web, mutation) ==
  [particleCount |-> c.particleCount, speed |-> c.speed, friction |-> c.friction,
   maxRadius |-> c.maxRadius, minRadius |-> c.minRadius,
   forceStrength |-> c.forceStrength, rules |-> c.rules,
   trailEffect |-> trail, particleSize |-> size, glowEnabled |-> glow,
   colorMode |-> mode, webEnabled |-> web, mutationEnabled |-> mutation]

\* the config objects of the config runs: every physics config, dressed as
\* DEFAULT_CONFIG is and with every rendering field set otherwise
DressedConfigs ==
  { Dressed(c, F(5), R(2), TRUE, "type", FALSE, FALSE) : c \in Configs }
  \cup { Dressed(c, Zero, R(5), FALSE, "density", TRUE, TRUE) : c \in Configs }

\* the configs of the sampling runs
LongConfigs ==
  { Cfg(MaxParticles, R(3), F(1), R(3), R(5), R(3), AttractRules),
    Cfg(2, One, F(5), R(3), One, One, DefaultRules),
    \* a radius and a force strength so large that squares overflow
    Cfg(2, R(1000), Zero, R(90000), One, R(1000), DefaultRules) }

(***************************************************************************)
(* The caller's rule matrix.  A matrix is an outer array of row arrays;    *)
(* `caller` holds the matrix of the config object last handed over as the  *)
(* caller sees it now (rules), as it was when handed over (given), and     *)
(* which arrays of the stored matrix are the caller's own arrays: the      *)
(* outer one (outer) and the rows (rows).                                  *)
(***************************************************************************)
\* variant: { ...config }, which stores the caller's arrays themselves
CopyRules_Shallow(rules) == [rules |-> rules, outer |-> TRUE, rows |-> Species]

\* rules: config.rules.map(r => [...r]): a new outer array of new rows
CopyRules(rules) ==
  [rules |-> [i \in Species |-> [j \in Species |-> rules[i][j]]],
   outer |-> FALSE, rows |-> {}]

CallerOf(rules) ==
  [rules |-> rules, given |-> rules,
   outer |-> CopyRules(rules).outer, rows |-> CopyRules(rules).rows]

(***************************************************************************)
(* Operations                                                              *)
(***************************************************************************)
\* the state after new ParticleSimulation(c), with lim operations to follow;
\* r is the state of the random number generator
Constructed(c, r, lim) ==
  /\ particles = <<>>
  /\ config = c
  /\ width = Zero
  /\ height = Zero
  /\ spatialHash = NullHash
  /\ mouseForce = [active |-> FALSE, x |-> Zero, y |-> Zero, radius |-> R(150),
                   strength |-> Zero]
  /\ energyHistory = <<>>
  /\ energySampleCounter = 0
  /\ maxSpeedObserved = One
  /\ rng = r
  /\ nextId = 1
  /\ err = FALSE
  /\ op = [name |-> "new", executed |-> TRUE, arg |-> <<>>]
  /\ pre = [particles |-> <<>>, config |-> c, width |-> Zero, height |-> Zero,
            spatialHash |-> NullHash,
            mouseForce |-> [active |-> FALSE, x |-> Zero, y |-> Zero,
                            radius |-> R(150), strength |-> Zero],
            energyHistory |-> <<>>, energySampleCounter |-> 0,
            maxSpeedObserved |-> One]
  /\ forceLog = <<>>
  /\ origin = "none"
  /\ ops = 0
  /\ limit = lim
  /\ steps = 0
  /\ taken = <<>>
  /\ caller = CallerOf(c.rules)

Init == \E c \in StartConfigs, r \in 1 .. RandLen : Constructed(c, r, MaxOps)

\* bookkeeping shared by every operation: count it, remember the state before
Called(name, executed, arg) ==
  /\ ops < limit
  /\ ops' = ops + 1
  /\ limit' = limit
  /\ pre' = Snapshot
  /\ op' = [name |-> name, executed |-> executed, arg |-> arg]

ClampCoord(x, size) ==
  IF Gt(size, Zero)
  THEN (IF Lt(x, Zero) THEN Zero
        ELSE IF Ge(x, size) THEN Sub(size, One)
        ELSE x)
  ELSE x

SetDimensions(w, h) ==
  /\ Called("setDimensions", TRUE, <<w, h>>)
  /\ UNCHANGED <<steps, taken, caller>>
  /\ width' = w
  /\ height' = h
  /\ spatialHash' = NewHash(config.maxRadius, w, h)
  /\ particles' = [i \in 1 .. Len(particles) |->
                     [particles[i] EXCEPT !.x = ClampCoord(@, w), !.y = ClampCoord(@, h)]]
  /\ err' = FALSE
  /\ origin' = IF origin = "initPos" THEN "init" ELSE origin
  /\ UNCHANGED <<config, mouseForce, energyHistory, energySampleCounter,
                 maxSpeedObserved, rng, nextId, forceLog>>

\* a particle at a uniformly random place, at rest, of a random type; r is the
\* generator state before its three draws
RandomParticle(r, id, w, h) ==
  [id |-> id, x |-> Mul(Rand(r, 0), w), y |-> Mul(Rand(r, 1), h),
   vx |-> Zero, vy |-> Zero,
   type |-> MathFloor(Mul(Rand(r, 2), R(PARTICLE_TYPES)))]

\* n random particles with ids id, id + 1, ...
RandomParticles(r, id, w, h, n) ==
  [i \in 1 .. n |-> RandomParticle(RngAfter(r, 3 * (i - 1)), id + i - 1, w, h)]

\* variant: a shrink drops particles from the front
adjustParticleCount_FromFront(ps, target, r, id, w, h) ==
  IF target > Len(ps) THEN ps \o RandomParticles(r, id, w, h, target - Len(ps))
  ELSE IF target < Len(ps) THEN SubSeq(ps, Len(ps) - target + 1, Len(ps))
  ELSE ps

adjustParticleCount(ps, target, r, id, w, h) ==
  IF target > Len(ps) THEN ps \o RandomParticles(r, id, w, h, target - Len(ps))
  ELSE IF target < Len(ps) THEN SubSeq(ps, 1, target)
  ELSE ps

\* variant: the radii are stored as given
SafeConfig_Unchecked(newConfig) == newConfig

\* variant: only the physics fields of the config are kept
SafeConfig_PhysicsOnly(newConfig) ==
  Cfg(newConfig.particleCount, newConfig.speed, newConfig.friction, newConfig.maxRadius,
      IF Gt(newConfig.minRadius, newConfig.maxRadius)
      THEN Mul(newConfig.maxRadius, F(30)) ELSE newConfig.minRadius,
      newConfig.forceStrength, newConfig.rules)

\* if (safeConfig.minRadius > safeConfig.maxRadius) minRadius = maxRadius * 0.3
SafeConfig(newConfig) ==
  IF Gt(newConfig.minRadius, newConfig.maxRadius)
  THEN [newConfig EXCEPT !.minRadius = Mul(newConfig.maxRadius, F(30))]
  ELSE newConfig

\* if (this.particles.length > 0 && oldCount !== newConfig.particleCount)
Adjusts(newConfig) ==
  Len(particles) > 0 /\ config.particleCount # newConfig.particleCount

\* the number of particles the adjustment adds
Grown(newConfig) ==
  IF Adjusts(newConfig) /\ newConfig.particleCount > Len(particles)
  THEN newConfig.particleCount - Len(particles) ELSE 0

UpdateConfig(newConfig) ==
  /\ Called("updateConfig", TRUE, newConfig)
  /\ UNCHANGED <<steps, taken>>
  /\ config' = [SafeConfig(newConfig) EXCEPT !.rules = CopyRules(newConfig.rules).rules]
  /\ caller' = CallerOf(newConfig.rules)
  /\ spatialHash' = IF Gt(width, Zero)
                    THEN NewHash(SafeConfig(newConfig).maxRadius, width, height)
                    ELSE spatialHash
  /\ particles' = IF Adjusts(newConfig)
                  THEN adjustParticleCount(particles, newConfig.particleCount,
                                           rng, nextId, width, height)
                  ELSE particles
  /\ rng' = RngAfter(rng, 3 * Grown(newConfig))
  /\ nextId' = nextId + Grown(newConfig)
  /\ err' = FALSE
  /\ UNCHANGED <<width, height, mouseForce, energyHistory, energySampleCounter,
                 maxSpeedObserved, forceLog, origin>>

\* how the population came about: "none" (never written), "external" (written
\* from outside), "initPos" (built by an initializer in a world of positive
\* size that has not been resized since) or "init" (built by an initializer)
CreatedBy == IF Gt(width, Zero) /\ Gt(height, Zero) THEN "initPos" ELSE "init"

InitializeParticles ==
  /\ Called("initializeParticles", TRUE, "random")
  /\ UNCHANGED <<steps, taken, caller>>
  /\ particles' = RandomParticles(rng, nextId, width, height, config.particleCount)
  /\ rng' = RngAfter(rng, 3 * config.particleCount)
  /\ nextId' = nextId + config.particleCount
  /\ err' = FALSE
  /\ origin' = CreatedBy
  /\ UNCHANGED <<config, width, height, spatialHash, mouseForce, energyHistory,
                 energySampleCounter, maxSpeedObserved, forceLog>>

\* the 'grid' layout: particle i (0-based) of n in a w x h world
GridCell(col, row, spacingX, spacingY, id) ==
  [id |-> id, x |-> Mul(spacingX, Add(col, One)), y |-> Mul(spacingY, Add(row, One)),
   vx |-> Zero, vy |-> Zero, type |-> Mod(Add(col, row), R(PARTICLE_TYPES))]

\* col = i % cols, row = Math.floor(i / cols), spacing = size / (count + 1)
GridAt(i, cols, rows, w, h, id) ==
  GridCell(Mod(R(i), cols), MathFloor(Div(R(i), cols)),
           Div(w, Add(cols, One)), Div(h, Add(rows, One)), id)

\* rows = Math.ceil(n / cols)
GridIn(i, n, cols, w, h, id) == GridAt(i, cols, MathCeil(Div(R(n), cols)), w, h, id)

\* cols = Math.ceil(Math.sqrt(n * (w / h)))
GridParticle(i, n, w, h, id) ==
  GridIn(i, n, MathCeil(MathSqrt(Mul(R(n), Div(w, h)))), w, h, id)

\* a particle at distance dist from (cx, cy) in direction angle, moving at
\* `speed` in direction heading
Polar(cx, cy, angle, dist, heading, speed, type, id) ==
  [id |-> id,
   x |-> Add(cx, Mul(MathCos(angle), dist)), y |-> Add(cy, Mul(MathSin(angle), dist)),
   vx |-> Mul(MathCos(heading), speed), vy |-> Mul(MathSin(heading), speed),
   type |-> type]

\* the 'bigbang' layout: angle, dist, speed and type are the four draws from r on
BigBangParticle(w, h, r, id) ==
  Polar(Div(w, R(2)), Div(h, R(2)),
        Mul(Mul(Rand(r, 0), Pi), R(2)),
        Mul(Rand(r, 1), Mul(MathMin(w, h), F(3))),
        Mul(Mul(Rand(r, 0), Pi), R(2)),
        Add(F(50), Mul(Rand(r, 2), R(2))),
        MathFloor(Mul(Rand(r, 3), R(PARTICLE_TYPES))), id)

\* goldenAngle = Math.PI * (3 - Math.sqrt(5))
GoldenAngle == Mul(Pi, Sub(R(3), MathSqrt(R(5))))

\* the 'spiral' layout: particle i (0-based) of n, t = i / n
SpiralAt(i, n, t, cx, cy, maxR, id) ==
  Polar(cx, cy, Mul(R(i), GoldenAngle), Mul(maxR, MathSqrt(t)),
        Add(Mul(R(i), GoldenAngle), Div(Pi, R(2))), Add(F(30), Mul(t, F(50))),
        Mod(MathFloor(Div(R(i), Div(R(n), R(PARTICLE_TYPES)))), R(PARTICLE_TYPES)), id)

SpiralParticle(i, n, w, h, id) ==
  SpiralAt(i, n, Div(R(i), R(n)), Div(w, R(2)), Div(h, R(2)),
           Mul(MathMin(w, h), F(40)), id)

\* the 'ring' layout: particle j of `count` on ring `ring`
RingAt(ring, j, count, cx, cy, maxRingR, id) ==
  Polar(cx, cy,
        Add(Mul(Mul(Div(R(j), R(count)), Pi), R(2)), Mul(R(ring), F(50))),
        Div(Mul(maxRingR, R(ring + 1)), R(PARTICLE_TYPES)),
        Add(Add(Mul(Mul(Div(R(j), R(count)), Pi), R(2)), Mul(R(ring), F(50))), Div(Pi, R(2))),
        Add(F(20), Mul(R(ring), F(15))), R(ring), id)

\* particle idx (0-based) of n: the first five rings take perRing particles
\* each, the last ring the rest
RingOf(idx, n, perRing, w, h, id) ==
  IF idx < (PARTICLE_TYPES - 1) * perRing
  THEN RingAt(idx \div perRing, idx % perRing, perRing,
              Div(w, R(2)), Div(h, R(2)), Mul(MathMin(w, h), F(40)), id)
  ELSE RingAt(PARTICLE_TYPES - 1, idx - (PARTICLE_TYPES - 1) * perRing,
              n - (PARTICLE_TYPES - 1) * perRing,
              Div(w, R(2)), Div(h, R(2)), Mul(MathMin(w, h), F(40)), id)

\* perRing = Math.floor(n / rings)
RingParticle(idx, n, w, h, id) == RingOf(idx, n, n \div PARTICLE_TYPES, w, h, id)

\* the 'clusters' layout: the centre of cluster t, from draws 2t and 2t + 1
ClusterCentre(t, margin, size, r, k) ==
  Add(margin, Mul(Rand(r, 2 * t + k), Sub(size, Mul(R(2), margin))))

\* particle i (0-based): angle, dist, vx and vy are its four draws, taken
\* after the twelve of the centres
ClusterAt(t, angle, dist, w, h, margin, r0, r, id) ==
  [id |-> id,
   x |-> WrapPos(Add(ClusterCentre(t, margin, w, r0, 0), Mul(MathCos(angle), dist)), w),
   y |-> WrapPos(Add(ClusterCentre(t, margin, h, r0, 1), Mul(MathSin(angle), dist)), h),
   vx |-> Mul(Sub(Rand(r, 2), F(50)), F(30)),
   vy |-> Mul(Sub(Rand(r, 3), F(50)), F(30)),
   type |-> R(t)]

ClusterParticle(i, w, h, r0, id) ==
  ClusterAt(i % PARTICLE_TYPES,
            Mul(Mul(Rand(RngAfter(r0, 2 * PARTICLE_TYPES + 4 * i), 0), Pi), R(2)),
            Mul(Rand(RngAfter(r0, 2 * PARTICLE_TYPES + 4 * i), 1), Mul(MathMin(w, h), F(8))),
            w, h, Mul(MathMin(w, h), F(15)), r0,
            RngAfter(r0, 2 * PARTICLE_TYPES + 4 * i), id)

\* variant: every kind falls through to the uniformly random placement
Layout_Unstructured(kind, n, w, h, r, id) ==
  [ps |-> RandomParticles(r, id, w, h, n), used |-> 3 * n]

\* the population a layout builds and the number of draws it takes
Layout(kind, n, w, h, r, id) ==
  IF kind = "grid"
  THEN [ps |-> [i \in 1 .. n |-> GridParticle(i - 1, n, w, h, id + i - 1)], used |-> 0]
  ELSE IF kind = "bigbang"
  THEN [ps |-> [i \in 1 .. n |->
                  BigBangParticle(w, h, RngAfter(r, 4 * (i - 1)), id + i - 1)],
        used |-> 4 * n]
  ELSE IF kind = "spiral"
  THEN [ps |-> [i \in 1 .. n |-> SpiralParticle(i - 1, n, w, h, id + i - 1)], used |-> 0]
  ELSE IF kind = "ring"
  THEN [ps |-> [i \in 1 .. n |-> RingParticle(i - 1, n, w, h, id + i - 1)], used |-> 0]
  ELSE IF kind = "clusters"
  THEN [ps |-> [i \in 1 .. n |-> ClusterParticle(i - 1, w, h, r, id + i - 1)],
        used |-> 2 * PARTICLE_TYPES + 4 * n]
  ELSE [ps |-> RandomParticles(r, id, w, h, n), used |-> 3 * n]

\* the population and the generator state a layout leaves behind
Laid(l) ==
  /\ particles' = l.ps
  /\ rng' = RngAfter(rng, l.used)

InitializeWithLayout(kind) ==
  /\ Called("initializeWithLayout", TRUE, kind)
  /\ UNCHANGED <<steps, taken, caller>>
  /\ Laid(Layout(kind, config.particleCount, width, height, rng, nextId))
  /\ nextId' = nextId + config.particleCount
  /\ err' = FALSE
  /\ origin' = CreatedBy
  /\ UNCHANGED <<config, width, height, spatialHash, mouseForce, energyHistory,
                 energySampleCounter, maxSpeedObserved, forceLog>>

\* update() returns at once without an index or in a world of width 0
StepRuns == ~spatialHash.null /\ width # Zero

\* variant: the sample is taken one step late
Sampled_Late(counter) == counter + 1 > EnergySamplePeriod

\* this.energySampleCounter++; if (this.energySampleCounter >= 6)
Sampled(counter) == counter + 1 >= EnergySamplePeriod

\* the type held by the most particles of ps, particle i's own type on a tie
MajorityType(ps, i) ==
  LET n(t) == Cardinality({j \in 1 .. Len(ps) : ps[j].type = t})
      top == {t \in {ps[j].type : j \in 1 .. Len(ps)} :
                \A j \in 1 .. Len(ps) : n(ps[j].type) <= n(t)}
  IN IF ps[i].type \in top THEN ps[i].type ELSE CHOOSE t \in top : TRUE

\* variant: every step ends with a pass that gives each particle the majority
\* type, whatever the config says and whatever the number of the step
StepMoved_Mutating(moved, sample) ==
  /\ err' = FALSE
  /\ particles' = [i \in 1 .. Len(moved.ps) |->
                     [moved.ps[i] EXCEPT !.type = MajorityType(moved.ps, i)]]
  /\ rng' = moved.rng
  /\ maxSpeedObserved' = SmoothMax(maxSpeedObserved, moved.maxSpd)
  /\ energySampleCounter' = IF sample THEN 0 ELSE energySampleCounter + 1
  /\ energyHistory' = IF sample THEN SampleEnergy(energyHistory, moved.ps)
                      ELSE energyHistory
  /\ steps' = steps + 1
  /\ taken' = IF sample THEN Append(taken, EnergySnapshot(moved.ps)) ELSE taken

\* the end of update() once the move loop has run: the smoothed maximum and,
\* every EnergySamplePeriod-th step, an energy sample
StepMoved(moved, sample) ==
  /\ err' = FALSE
  /\ particles' = moved.ps
  /\ rng' = moved.rng
  /\ maxSpeedObserved' = SmoothMax(maxSpeedObserved, moved.maxSpd)
  /\ energySampleCounter' = IF sample THEN 0 ELSE energySampleCounter + 1
  /\ energyHistory' = IF sample THEN SampleEnergy(energyHistory, moved.ps)
                      ELSE energyHistory
  /\ steps' = steps + 1
  /\ taken' = IF sample THEN Append(taken, EnergySnapshot(moved.ps)) ELSE taken

\* update() after the force loop: a raised TypeError leaves what was written,
\* otherwise the move loop runs with maxVel = maxRadius * 0.5
StepForced(hs, forced) ==
  /\ spatialHash' = hs
  /\ forceLog' = forced.log
  /\ IF forced.thrown
     THEN /\ err' = TRUE
          /\ particles' = forced.ps
          /\ UNCHANGED <<energyHistory, energySampleCounter, maxSpeedObserved, rng,
                         steps, taken>>
     ELSE StepMoved(MoveLoop(Mul(config.maxRadius, F(50)), width, height, 1,
                             [ps |-> forced.ps, rng |-> rng, maxSpd |-> Zero]),
                    Sampled(energySampleCounter))

\* update() after the index has been rebuilt as hs
StepHashed(hs) ==
  StepForced(hs, ForceLoop(config, width, height, mouseForce, hs, 1,
                           [ps |-> particles, thrown |-> FALSE, log |-> <<>>]))

\* variant: a step that has used the pointer force switches it off
Step_ClearsPointer ==
  IF ~StepRuns
  THEN /\ Called("step", FALSE, <<>>)
       /\ UNCHANGED <<steps, taken, caller>>
       /\ err' = FALSE
       /\ UNCHANGED <<particles, config, width, height, spatialHash, mouseForce,
                      energyHistory, energySampleCounter, maxSpeedObserved, rng,
                      nextId, forceLog, origin>>
  ELSE /\ Called("step", TRUE, <<>>)
       /\ mouseForce' = [mouseForce EXCEPT !.active = FALSE]
       /\ UNCHANGED <<config, width, height, nextId, origin, caller>>
       /\ StepHashed([spatialHash EXCEPT
                        !.grid = GridBuild(<<>>, spatialHash.cellSize, particles, 1)])

Step ==
  IF ~StepRuns
  THEN /\ Called("step", FALSE, <<>>)
       /\ UNCHANGED <<steps, taken, caller>>
       /\ err' = FALSE
       /\ UNCHANGED <<particles, config, width, height, spatialHash, mouseForce,
                      energyHistory, energySampleCounter, maxSpeedObserved, rng,
                      nextId, forceLog, origin>>
  ELSE /\ Called("step", TRUE, <<>>)
       /\ UNCHANGED <<config, width, height, mouseForce, nextId, origin, caller>>
       /\ StepHashed([spatialHash EXCEPT
                        !.grid = GridBuild(<<>>, spatialHash.cellSize, particles, 1)])

\* an outside write of the public `particles` field
PlaceParticles(pop) ==
  /\ Called("placeParticles", TRUE, <<>>)
  /\ UNCHANGED <<steps, taken, caller>>
  /\ particles' = [i \in 1 .. Len(pop) |->
                     [id |-> nextId + i - 1, x |-> pop[i].x, y |-> pop[i].y,
                      vx |-> pop[i].vx, vy |-> pop[i].vy, type |-> pop[i].type]]
  /\ nextId' = nextId + Len(pop)
  /\ err' = FALSE
  /\ origin' = "external"
  /\ UNCHANGED <<config, width, height, spatialHash, mouseForce, energyHistory,
                 energySampleCounter, maxSpeedObserved, rng, forceLog>>

PointerDown(d) ==
  /\ Called("pointerDown", TRUE, d)
  /\ UNCHANGED <<steps, taken, caller>>
  /\ mouseForce' = [mouseForce EXCEPT !.active = TRUE, !.x = d.x, !.y = d.y,
                                      !.strength = d.strength]
  /\ err' = FALSE
  /\ UNCHANGED <<particles, config, width, height, spatialHash, energyHistory,
                 energySampleCounter, maxSpeedObserved, rng, nextId, forceLog, origin>>

PointerUp ==
  /\ mouseForce.active
  /\ Called("pointerUp", TRUE, <<>>)
  /\ UNCHANGED <<steps, taken, caller>>
  /\ mouseForce' = [mouseForce EXCEPT !.active = FALSE]
  /\ err' = FALSE
  /\ UNCHANGED <<particles, config, width, height, spatialHash, energyHistory,
                 energySampleCounter, maxSpeedObserved, rng, nextId, forceLog, origin>>

\* the caller writes c.rules[i][j] = v on the config object it handed over:
\* the stored matrix changes with it if row i is the same array
CallerWrite(i, j, v) ==
  /\ Called("callerWrite", TRUE, <<i, j, v>>)
  /\ caller' = [caller EXCEPT !.rules[i][j] = v]
  /\ config' = IF caller.outer \/ i \in caller.rows
               THEN [config EXCEPT !.rules[i][j] = v]
               ELSE config
  /\ err' = FALSE
  /\ UNCHANGED <<particles, width, height, spatialHash, mouseForce, energyHistory,
                 energySampleCounter, maxSpeedObserved, rng, nextId, forceLog, origin,
                 steps, taken>>

\* the caller writes c.rules[i] = row, a new array: the stored matrix changes
\* with it if its outer array is the same array
CallerReplaceRow(i, row) ==
  /\ Called("callerReplaceRow", TRUE, <<i, row>>)
  /\ caller' = [caller EXCEPT !.rules[i] = row, !.rows = @ \ {i}]
  /\ config' = IF caller.outer THEN [config EXCEPT !.rules[i] = row] ELSE config
  /\ err' = FALSE
  /\ UNCHANGED <<particles, width, height, spatialHash, mouseForce, energyHistory,
                 energySampleCounter, maxSpeedObserved, rng, nextId, forceLog, origin,
                 steps, taken>>

Next ==
  \/ \E d \in Dims : SetDimensions(d[1], d[2])
  \/ \E c \in Configs : UpdateConfig(c)
  \/ InitializeParticles
  \/ \E kind \in LayoutKinds : InitializeWithLayout(kind)
  \/ Step
  \/ \E pop \in Placements : PlaceParticles(pop)
  \/ \E d \in PointerDowns : PointerDown(d)
  \/ PointerUp

Spec == Init /\ [][Next]_vars

(***************************************************************************)
(* Long runs: a simulation that has been constructed, dimensioned and      *)
(* initialized is stepped, with config updates in between.                 *)
(***************************************************************************)
\* the pointer of a simulation nobody has touched
IdlePointer ==
  [active |-> FALSE, x |-> Zero, y |-> Zero, radius |-> R(150), strength |-> Zero]

\* the state after new ParticleSimulation(c); setDimensions(d); then
\* initializeWithLayout(kind), with lim operations to follow
Started(c, d, r, kind, lim) ==
  /\ particles = Layout(kind, c.particleCount, d[1], d[2], r, 1).ps
  /\ config = c
  /\ width = d[1]
  /\ height = d[2]
  /\ spatialHash = NewHash(c.maxRadius, d[1], d[2])
  /\ mouseForce = IdlePointer
  /\ energyHistory = <<>>
  /\ energySampleCounter = 0
  /\ maxSpeedObserved = One
  /\ rng = RngAfter(r, Layout(kind, c.particleCount, d[1], d[2], r, 1).used)
  /\ nextId = 1 + c.particleCount
  /\ err = FALSE
  /\ op = [name |-> "initializeWithLayout", executed |-> TRUE, arg |-> kind]
  /\ pre = [particles |-> <<>>, config |-> c, width |-> d[1], height |-> d[2],
            spatialHash |-> NewHash(c.maxRadius, d[1], d[2]),
            mouseForce |-> IdlePointer,
            energyHistory |-> <<>>, energySampleCounter |-> 0,
            maxSpeedObserved |-> One]
  /\ forceLog = <<>>
  /\ origin = "initPos"
  /\ ops = 0
  /\ limit = lim
  /\ steps = 0
  /\ taken = <<>>
  /\ caller = CallerOf(c.rules)

RunInit ==
  \E c \in StartConfigs, d \in RunDims, r \in 1 .. RandLen, kind \in LayoutKinds :
    \* the grid layout draws no random number: one generator state will do
    /\ kind = "grid" => r = 1
    /\ Started(c, d, r, kind, MaxRunOps)

RunNext ==
  \/ Step
  \/ \E c \in RunConfigs : UpdateConfig(c)

RunSpec == RunInit /\ [][RunNext]_vars

(***************************************************************************)
(* Sampling runs: a simulation stepped long enough for the energy history  *)
(* to fill up and turn over.                                               *)
(***************************************************************************)
LongSpec ==
  /\ \E c \in LongConfigs, r \in 1 .. RandLen :
       Started(c, <<R(10), R(10)>>, r, "random", MaxLongOps)
  /\ [][Step]_vars

(***************************************************************************)
(* Mutation runs: the population of the mutation scenario, written into    *)
(* `particles` after initialization, is stepped, with the mutationEnabled  *)
(* toggle of the config on in one run and off in the other.                *)
(***************************************************************************)
Identified(pop, id) ==
  [i \in 1 .. Len(pop) |->
     [id |-> id + i - 1, x |-> pop[i].x, y |-> pop[i].y,
      vx |-> pop[i].vx, vy |-> pop[i].vy, type |-> pop[i].type]]

MutationInit ==
  /\ particles = Identified(MutationStart, 1)
  /\ config \in { Dressed(MutationConfig, F(5), R(2), TRUE, "type", FALSE, m) :
                   m \in BOOLEAN }
  /\ width = R(10)
  /\ height = R(10)
  /\ spatialHash = NewHash(MutationConfig.maxRadius, R(10), R(10))
  /\ mouseForce = IdlePointer
  /\ energyHistory = <<>>
  /\ energySampleCounter = 0
  /\ maxSpeedObserved = One
  /\ rng = 1
  /\ nextId = 1 + Len(MutationStart)
  /\ err = FALSE
  /\ op = [name |-> "placeParticles", executed |-> TRUE, arg |-> <<>>]
  /\ pre = [particles |-> <<>>, config |-> config, width |-> R(10),
            height |-> R(10),
            spatialHash |-> NewHash(MutationConfig.maxRadius, R(10), R(10)),
            mouseForce |-> IdlePointer,
            energyHistory |-> <<>>, energySampleCounter |-> 0,
            maxSpeedObserved |-> One]
  /\ forceLog = <<>>
  /\ origin = "external"
  /\ ops = 0
  /\ limit = MaxMutationOps
  /\ steps = 0
  /\ taken = <<>>
  /\ caller = CallerOf(MutationConfig.rules)

MutationSpec == MutationInit /\ [][Step]_vars

(***************************************************************************)
(* Aliasing runs: the caller keeps writing to the config object it handed  *)
(* to the constructor or to updateConfig while the simulation is stepped.  *)
(***************************************************************************)
AliasNext ==
  \/ Step
  \/ \E c \in AliasConfigs : UpdateConfig(c)
  \/ \E i \in {0, 1}, j \in {0, 1}, v \in {One, Neg(One)} : CallerWrite(i, j, v)
  \/ \E i \in {0, 1} : CallerReplaceRow(i, [j \in Species |-> F(50)])

AliasSpec ==
  /\ \E c \in AliasConfigs : Started(c, <<R(10), R(10)>>, 1, "grid", MaxAliasOps)
  /\ [][AliasNext]_vars

(***************************************************************************)
(* Calls of the exported force law on its documented domain: d >= 0,       *)
(* a in [-1, 1], beta in [0.01, 0.99].                                     *)
(***************************************************************************)
\* a call particleLifeForce(d, a, beta) from outside the simulation
CallForce(d, a, beta) ==
  /\ ops < limit
  /\ ops' = ops + 1
  /\ op' = [name |-> "particleLifeForce", executed |-> TRUE, arg |-> <<d, a, beta>>,
            result |-> particleLifeForce(d, a, beta)]
  /\ UNCHANGED <<progVars, rng, nextId, err, pre, forceLog, origin, limit, steps,
                 taken, caller>>

\* the calls made: distances in, on the borders of and beyond the three zones
ForceNext ==
  \E d \in { Zero, F(1), F(5), F(10), F(29), F(30), F(31), F(49), F(50), F(51),
              F(65), F(98), F(99), One, F(101), F(150), R(100), PInf },
     a \in { Neg(One), F(-50), Zero, F(50), One },
     beta \in { F(1), F(30), F(50), F(98), F(99) } : CallForce(d, a, beta)

ForceSpec ==
  /\ Constructed(Cfg(0, One, F(50), R(3), One, One, DefaultRules), 1, MaxForceOps)
  /\ [][ForceNext]_vars

(***************************************************************************)
(* Index runs: a SpatialHash used on its own, as the tests do.  `width`    *)
(* and `height` are the world it was sized for, `particles` the particles  *)
(* added to it since it was created or last cleared, `nextId` tells the    *)
(* particle objects apart.                                                 *)
(***************************************************************************)
\* bookkeeping of a call on the index, with the value it returned
HashCalled(name, arg, result) ==
  /\ ops < limit
  /\ ops' = ops + 1
  /\ pre' = Snapshot
  /\ op' = [name |-> name, executed |-> TRUE, arg |-> arg, result |-> result]
  /\ UNCHANGED <<config, mouseForce, energyHistory, energySampleCounter,
                 maxSpeedObserved, rng, err, forceLog, origin, limit, steps, taken,
                 caller>>

\* hash = new SpatialHash(cellSize); hash.setWorldSize(w, h)
HashNew(cellSize, w, h) ==
  /\ HashCalled("SpatialHash", <<cellSize, w, h>>, <<>>)
  /\ spatialHash' = NewHash(cellSize, w, h)
  /\ width' = w
  /\ height' = h
  /\ particles' = <<>>
  /\ UNCHANGED nextId

\* (x, y) is a position of the world the index was sized for: 0 <= x < width,
\* 0 <= y < height, and 0 along an axis of no extent
WorldPosition(x, y) ==
  /\ IF Gt(width, Zero) THEN Ge(x, Zero) /\ Lt(x, width) ELSE x = Zero
  /\ IF Gt(height, Zero) THEN Ge(y, Zero) /\ Lt(y, height) ELSE y = Zero

\* hash.add(p) for a new particle p at a position of the world
HashAdd(x, y) ==
  /\ ~spatialHash.null
  /\ Len(particles) < MaxParticles
  /\ WorldPosition(x, y)
  /\ HashCalled("add", <<x, y>>, <<>>)
  /\ spatialHash' =
       [spatialHash EXCEPT !.grid = GridAdd(spatialHash.grid, spatialHash.cellSize,
                                            [id |-> nextId, x |-> x, y |-> y])]
  /\ particles' = Append(particles, [id |-> nextId, x |-> x, y |-> y, vx |-> Zero,
                                     vy |-> Zero, type |-> Zero])
  /\ nextId' = nextId + 1
  /\ UNCHANGED <<width, height>>

\* hash.clear()
HashClear ==
  /\ ~spatialHash.null
  /\ HashCalled("clear", <<>>, <<>>)
  /\ spatialHash' = [spatialHash EXCEPT !.grid = <<>>]
  /\ particles' = <<>>
  /\ UNCHANGED <<width, height, nextId>>

\* hash.getNearby(x, y) at a position of the world
HashQuery(x, y) ==
  /\ ~spatialHash.null
  /\ WorldPosition(x, y)
  /\ HashCalled("getNearby", <<x, y>>, GetNearby(spatialHash, x, y))
  /\ UNCHANGED <<spatialHash, width, height, particles, nextId>>

\* cell sizes of 3, 1 and below 1; worlds of four, two and ten cells, of no
\* extent, and wider than 65536 cells; points in the first, an inner and the
\* last cell
HashNext ==
  \/ \E g \in { <<R(3), R(10), R(10)>>, <<R(3), R(6), R(6)>>, <<One, R(10), R(10)>>,
                 <<Zero, R(10), R(10)>>,
                 <<R(-3), R(10), Zero>>, <<F(50), Zero, Zero>>,
                 <<One, R(70000), One>> } : HashNew(g[1], g[2], g[3])
  \/ \E pt \in { <<Zero, Zero>>, <<F(50), F(50)>>, <<R(4), F(50)>>, <<F(950), F(950)>>,
                  <<F(6553650), F(50)>> } : HashAdd(pt[1], pt[2]) \/ HashQuery(pt[1], pt[2])
  \/ HashClear

HashSpec ==
  /\ Constructed(Cfg(0, One, F(50), R(3), One, One, DefaultRules), 1, MaxHashOps)
  /\ [][HashNext]_vars

(***************************************************************************)
(* Config runs: config objects with all their fields are applied to a      *)
(* simulation with and without a world and a population.                   *)
(***************************************************************************)
getConfig == config

ConfigNext ==
  \/ \E c \in DressedConfigs : UpdateConfig(c)
  \/ \E d \in { <<R(10), R(10)>>, <<Zero, R(6)>> } : SetDimensions(d[1], d[2])
  \/ InitializeParticles

ConfigSpec ==
  /\ \E c \in DressedConfigs : Constructed(c, 1, MaxConfigOps)
  /\ [][ConfigNext]_vars

(***************************************************************************)
(* Layout runs: a simulation is dimensioned and initialized, with every    *)
(* layout, any number of times in any order.                               *)
(***************************************************************************)
LayoutNext ==
  \/ \E d \in Dims : SetDimensions(d[1], d[2])
  \/ InitializeParticles
  \/ \E kind \in {"random", "bigbang", "spiral", "grid", "ring", "clusters"} :
       InitializeWithLayout(kind)

\* particle counts that are zero, below the species count and not a multiple of it
LayoutSpec ==
  /\ \E n \in {0, 2, 7, 8}, r \in 1 .. RandLen :
       Constructed(Cfg(n, One, F(50), R(3), One, One, DefaultRules), r, MaxLayoutOps)
  /\ [][LayoutNext]_vars

(***************************************************************************)
(* Cadence runs: steps interleaved with the other operations that keep the *)
(* population, in worlds where step() runs and where it returns at once.   *)
(***************************************************************************)
CadenceNext ==
  \/ Step
  \/ \E d \in { <<R(10), R(10)>>, <<Zero, R(10)>> } : SetDimensions(d[1], d[2])
  \/ UpdateConfig(CadenceConfig)
  \/ InitializeParticles
  \/ InitializeWithLayout("grid")

CadenceSpec ==
  /\ Started(CadenceConfig, <<R(10), R(10)>>, 1, "grid", MaxCadenceOps)
  /\ [][CadenceNext]_vars

(***************************************************************************)
(* Pointer runs: a running simulation is stepped while the input layer     *)
(* presses and releases the pointer.                                       *)
(***************************************************************************)
PointerNext ==
  \/ Step
  \/ \E d \in PointerDowns : PointerDown(d)
  \/ PointerUp

PointerSpec ==
  /\ \E r \in 1 .. RandLen :
       Started(Cfg(2, One, F(50), R(3), One, One, DefaultRules), <<R(10), R(10)>>,
               r, "random", MaxPointerOps)
  /\ [][PointerNext]_vars

(***************************************************************************)
(* Properties.  `pre` is the program state before the last operation and   *)
(* `op` names that operation, so a postcondition is a state predicate.     *)
(***************************************************************************)
Indices == 1 .. Len(particles)
PreIndices == 1 .. Len(pre.particles)

PositiveWorld(w, h) == Gt(w, Zero) /\ Gt(h, Zero)

AllFinite(p) == IsFinite(p.x) /\ IsFinite(p.y) /\ IsFinite(p.vx) /\ IsFinite(p.vy)
InWorld(p, w, h) ==
  /\ IsFinite(p.x) /\ IsFinite(p.y)
  /\ 0 <= p.x /\ p.x < w
  /\ 0 <= p.y /\ p.y < h

StepExecuted == op.name = "step" /\ op.executed
SameObjects ==
  /\ Len(particles) = Len(pre.particles)
  /\ \A i \in Indices : particles[i].id = pre.particles[i].id

\* C1: a population built by initializeParticles or initializeWithLayout in a
\* world of positive size stays inside [0, width) x [0, height) with finite
\* x, y, vx, vy through every later step() and updateConfig call.
C1_Boundedness ==
  origin = "initPos" =>
    \A i \in Indices : AllFinite(particles[i]) /\ InWorld(particles[i], width, height)

\* a step that follows a config update and earlier steps has moved a particle
\* of such a population
C1_Witness ==
  /\ origin = "initPos" /\ StepExecuted /\ ~err
  /\ ops >= 3 /\ config \notin StartConfigs
  /\ \E i \in Indices : particles[i].x # pre.particles[i].x

CorruptBefore(p) == ~AllFinite(p)
MaxVelOf(cfg) == Mul(cfg.maxRadius, F(50))

\* the case of C2: an executed step in a world of positive size that started
\* with a non-finite x, y, vx or vy in some particle
C2_Case ==
  /\ StepExecuted /\ PositiveWorld(pre.width, pre.height)
  /\ \E i \in PreIndices : CorruptBefore(pre.particles[i])

ZeroOrCapped(v, cfg) == v = Zero \/ MathAbs(v) = MathAbs(MaxVelOf(cfg))

C3_StepKeepsPopulation == op.name = "step" => SameObjects

\* an executed step over a population one of whose particles it re-placed
C3_Witness ==
  /\ StepExecuted /\ Len(particles) > 1
  /\ \E i \in Indices : ~IsFinite(pre.particles[i].x) /\ IsFinite(particles[i].x)

\* the population was built through the simulation's own operations
OwnPopulation == origin \in {"init", "initPos"}

\* C4 as claimed: after updateConfig(c) the population has exactly
\* c.particleCount particles (here for populations the simulation built itself).
C4_AsClaimed ==
  (op.name = "updateConfig" /\ OwnPopulation) => Len(particles) = op.arg.particleCount

InsideAxis(x, size) == IsFinite(x) /\ 0 <= x /\ x <= size /\ (size > 0 => x < size)

\* C5: when updateConfig changes the population's size, growth keeps the old
\* particles as a prefix and appends particles at rest inside the world, and a
\* shrink keeps exactly the first particleCount old particles, in order.
C5_ResizeKeepsSurvivors ==
  (op.name = "updateConfig" /\ Len(particles) # Len(pre.particles)) =>
    LET old == Len(pre.particles)
        new == Len(particles)
    IN IF new > old
       THEN /\ SubSeq(particles, 1, old) = pre.particles
            /\ \A i \in (old + 1) .. new :
                 /\ particles[i].vx = Zero /\ particles[i].vy = Zero
                 /\ InsideAxis(particles[i].x, width)
                 /\ InsideAxis(particles[i].y, height)
       ELSE /\ new = op.arg.particleCount
            /\ particles = SubSeq(pre.particles, 1, new)

\* updateConfig has appended a particle to a population in a world of positive size
C5_Witness ==
  /\ op.name = "updateConfig" /\ PositiveWorld(width, height)
  /\ Len(pre.particles) > 0 /\ Len(particles) > Len(pre.particles)

RadiiViolated(c) == Gt(c.minRadius, c.maxRadius)

\* C6 as claimed: whatever the radii of c, updateConfig(c) raises no error and
\* leaves minRadius <= maxRadius: a violating c is stored with minRadius =
\* 0.3 x maxRadius, any other c with its radii unchanged.
C6_AsClaimed ==
  op.name = "updateConfig" =>
    /\ ~err
    /\ Le(config.minRadius, config.maxRadius)
    /\ config.maxRadius = op.arg.maxRadius
    /\ config.minRadius = IF RadiiViolated(op.arg) THEN Mul(op.arg.maxRadius, F(30))
                          ELSE op.arg.minRadius

\* C6, amended: updateConfig(c) raises no error and stores a violating c
\* (minRadius > maxRadius) with minRadius = 0.3 x maxRadius and any other c with
\* its radii unchanged; minRadius <= maxRadius then holds whenever
\* c.maxRadius >= 0 and c.minRadius is not NaN.
C6_ConfigValidity ==
  op.name = "updateConfig" =>
    /\ ~err
    /\ config.maxRadius = op.arg.maxRadius
    /\ config.minRadius = IF RadiiViolated(op.arg) THEN Mul(op.arg.maxRadius, F(30))
                          ELSE op.arg.minRadius
    /\ (Ge(op.arg.maxRadius, Zero) /\ ~IsNaN(op.arg.minRadius))
         => Le(config.minRadius, config.maxRadius)

\* updateConfig has corrected a violating pair of radii
C6_Witness ==
  /\ op.name = "updateConfig" /\ RadiiViolated(op.arg) /\ Ge(op.arg.maxRadius, Zero)
  /\ config.minRadius # op.arg.minRadius
  /\ Le(config.minRadius, config.maxRadius)

\* C7 as claimed: step() changes nothing and raises no error when the world was
\* never dimensioned or has width 0 or height 0.
C7_AsClaimed ==
  (op.name = "step" /\ (pre.spatialHash.null \/ pre.width = Zero \/ pre.height = Zero)) =>
    /\ Snapshot = pre
    /\ ~err

\* C8 as claimed: after setDimensions(w, h) with w, h > 0 every particle is in
\* [0, w) x [0, h); particles that were inside are unchanged, as are all
\* velocities, types and the particle count (here for populations whose
\* coordinates and velocities were all finite).
C8_AsClaimed ==
  (/\ op.name = "setDimensions" /\ PositiveWorld(width, height)
   /\ \A i \in PreIndices : AllFinite(pre.particles[i])) =>
    /\ SameObjects
    /\ \A i \in Indices :
         LET p == particles[i]
             q == pre.particles[i]
         IN /\ InWorld(p, width, height)
            /\ p.vx = q.vx /\ p.vy = q.vy /\ p.type = q.type
            /\ InWorld(q, width, height) => p = q

\* the shortest displacement from a to b on a circle of circumference size,
\* for a and b in [0, size)
TorusDelta(a, b, size) ==
  LET raw == b - a
  IN IF 2 * raw > size THEN raw - size
     ELSE IF 2 * raw < -size THEN raw + size
     ELSE raw

\* particles i and j of the population before the step are toroidal neighbours:
\* both inside the world, at a wrapped distance d with 0.1 <= d < maxRadius
TorusNeighbours(i, j) ==
  LET a == pre.particles[i]
      b == pre.particles[j]
      dx == TorusDelta(a.x, b.x, pre.width)
      dy == TorusDelta(a.y, b.y, pre.height)
      r == pre.config.maxRadius
  IN /\ i # j
     /\ InWorld(a, pre.width, pre.height) /\ InWorld(b, pre.width, pre.height)
     /\ IsFinite(r) /\ r > 0
     /\ dx * dx + dy * dy >= (Scale \div 10) * (Scale \div 10)
     /\ dx * dx + dy * dy < r * r

SeqRange(q) == {q[k] : k \in 1 .. Len(q)}

\* C9 as claimed: in an executed step, whatever the world size and maxRadius,
\* two toroidal neighbours are each returned by the other's index query and
\* each contributes to the other's force with the wrapped displacement.
C9_AsClaimed ==
  (StepExecuted /\ ~err /\ PositiveWorld(pre.width, pre.height)) =>
    \A i, j \in PreIndices :
      TorusNeighbours(i, j) =>
        LET a == pre.particles[i]
            b == pre.particles[j]
        IN /\ b.id \in SeqRange(GetNearby(spatialHash, a.x, a.y))
           /\ \E e \in SeqRange(forceLog[i]) :
                /\ e.id = b.id
                /\ e.dx = TorusDelta(a.x, b.x, pre.width)
                /\ e.dy = TorusDelta(a.y, b.y, pre.height)

ZeroRow(cfg, t) ==
  IsSpecies(t) /\ \A j \in Species : cfg.rules[TypeIdx(t)][j] = Zero

PointerIdle(mf) == ~(mf.active /\ mf.strength # Zero)

\* particle i of the population before the step belongs to a species with an
\* all-zero rule row and is at rest inside the world
InertBefore(i) ==
  LET q == pre.particles[i]
  IN /\ ZeroRow(pre.config, q.type)
     /\ q.vx = Zero /\ q.vy = Zero
     /\ InWorld(q, pre.width, pre.height)

Unmoved(i) ==
  /\ particles[i].x = pre.particles[i].x /\ particles[i].y = pre.particles[i].y
  /\ particles[i].vx = Zero /\ particles[i].vy = Zero

\* C10 as claimed: without a pointer force, an executed step leaves such a
\* particle where it was, at rest, wherever the other particles are.
C10_AsClaimed ==
  (StepExecuted /\ ~err /\ PositiveWorld(pre.width, pre.height) /\ PointerIdle(pre.mouseForce)) =>
    \A i \in PreIndices : InertBefore(i) => Unmoved(i)

\* q is in the repulsion zone of p: the step's wrapped distance d between
\* them has 0.1 <= d < maxRadius and d / maxRadius < beta
InRepulsionZone(cfg, w, h, p, q) ==
  LET dx == WrapDelta(Sub(q.x, p.x), w)
      dy == WrapDelta(Sub(q.y, p.y), h)
      dSq == Add(Mul(dx, dx), Mul(dy, dy))
      nd == Mul(MathSqrt(dSq), Div(One, cfg.maxRadius))
  IN /\ Ge(dSq, F(1)) /\ Lt(dSq, Mul(cfg.maxRadius, cfg.maxRadius))
     /\ Lt(nd, BetaOf(cfg))

NoneTooClose(i) ==
  \A j \in PreIndices :
    j # i => ~InRepulsionZone(pre.config, pre.width, pre.height,
                              pre.particles[i], pre.particles[j])

\* C10, amended: in a world of positive size, with maxRadius >= 0 and without
\* a pointer force, a step leaves a particle of an all-zero-row species that is
\* at rest where it was, at rest, provided no other particle is in its
\* repulsion zone.
C10_ZeroRowStaysStill ==
  (/\ StepExecuted /\ PositiveWorld(pre.width, pre.height)
   /\ PointerIdle(pre.mouseForce) /\ Ge(pre.config.maxRadius, Zero)) =>
    \A i \in PreIndices : (InertBefore(i) /\ NoneTooClose(i)) => Unmoved(i)

\* the step's velocity cap is negative and drags a particle at rest along
C10_NegativeCap ==
  /\ StepExecuted /\ ~err /\ Lt(pre.config.maxRadius, Zero)
  /\ \E i \in PreIndices : InertBefore(i) /\ NoneTooClose(i) /\ ~Unmoved(i)

\* a step has left such a particle in place although a neighbour at mid range
\* entered its force computation
C10_Witness ==
  /\ StepExecuted /\ ~err /\ PositiveWorld(pre.width, pre.height)
  /\ PointerIdle(pre.mouseForce) /\ Ge(pre.config.maxRadius, Zero)
  /\ \E i \in PreIndices :
       /\ InertBefore(i) /\ NoneTooClose(i) /\ Unmoved(i)
       /\ Len(forceLog[i]) > 0

NoError == ~err

\* the last n entries of a sequence
LastN(s, n) == IF Len(s) <= n THEN s ELSE SubSeq(s, Len(s) - n + 1, Len(s))

\* C11: in every reachable state getEnergyHistory() holds at most 200
\* snapshots, and they are the most recent min(n, 200) of the n samples taken
\* so far, oldest first.
C11_EnergyHistory ==
  /\ Len(energyHistory) <= energyHistoryMax
  /\ energyHistory = LastN(taken, energyHistoryMax)

\* more than 200 samples have been taken, and the oldest one kept differs from
\* the newest
C11_Witness ==
  /\ Len(taken) > energyHistoryMax
  /\ Len(energyHistory) = energyHistoryMax
  /\ energyHistory[1] # energyHistory[energyHistoryMax]
  /\ taken[1] # taken[Len(taken)]

\* C12: the energy sampler runs on exactly every 6th step() that ran: after k
\* steps that passed the guard and returned, floor(k / 6) samples have been
\* taken and the counter stands at k mod 6; a step() that returns at once and
\* every other operation leave the counter and the history as they were.
C12_Cadence ==
  /\ Len(taken) = steps \div EnergySamplePeriod
  /\ energySampleCounter = steps % EnergySamplePeriod
  /\ (op.name # "step" \/ ~op.executed) =>
       /\ energySampleCounter = pre.energySampleCounter
       /\ energyHistory = pre.energyHistory

\* after at least six steps and one sample, and at least three other calls,
\* a step() has just returned at once in the middle of a cadence period
C12_Witness ==
  /\ steps > EnergySamplePeriod
  /\ Len(energyHistory) >= 1
  /\ ops >= steps + 3
  /\ op.name = "step" /\ ~op.executed
  /\ energySampleCounter > 0

\* the number of particles of type t
TypeCount(ps, t) == Cardinality({i \in 1 .. Len(ps) : ps[i].type = R(t)})

\* C13 (as claimed): with mutation enabled, a co-located population in which
\* type 1 is out-numbered by type 0 has, after the steps of the scenario,
\* strictly fewer particles of type 1 than it started with.
C13_AsClaimed ==
  steps >= MaxMutationOps =>
    TypeCount(particles, 1) < TypeCount(MutationStart, 1)

Capped(v, cfg) == Le(MathAbs(v), MaxVelOf(cfg))

CallerWrote == op.name \in {"callerWrite", "callerReplaceRow"}

\* C15: after new ParticleSimulation(c) or updateConfig(c), writes by the
\* caller to c.rules or to its rows change nothing of the stored config: in
\* every state getConfig().rules, which is what step() computes the forces
\* from, is the matrix as it was when c was handed over.
C15_NoAliasing ==
  /\ config.rules = caller.given
  /\ CallerWrote => config = pre.config

\* a step has moved a particle by a force after the caller changed a cell of
\* its matrix that the force depends on
C15_Witness ==
  /\ StepExecuted /\ ~err
  /\ caller.rules[0][1] # caller.given[0][1]
  /\ caller.given[0][1] # Zero
  /\ particles[1].type = R(0) /\ particles[2].type = R(1)
  /\ particles[1].vx # pre.particles[1].vx

Initialized == op.name \in {"initializeParticles", "initializeWithLayout"}

\* 0 <= x <= width and 0 <= y <= height
WithinWorld(p, w, h) == Ge(p.x, Zero) /\ Le(p.x, w) /\ Ge(p.y, Zero) /\ Le(p.y, h)

\* C16 (as claimed): initializeParticles() and initializeWithLayout(kind), for
\* every kind, leave exactly config.particleCount particles, each with
\* 0 <= x <= width and 0 <= y <= height, for every particleCount >= 0.
C16_AsClaimed ==
  Initialized =>
    /\ Len(particles) = config.particleCount
    /\ \A i \in Indices : WithinWorld(particles[i], width, height)

\* in a world of positive width and height every layout gives the count and
\* keeps the bounds
C16_PositiveWorld ==
  (Initialized /\ PositiveWorld(width, height)) =>
    /\ Len(particles) = config.particleCount
    /\ \A i \in Indices : WithinWorld(particles[i], width, height)

\* the piecewise force law for raw d, a, beta, in integer arithmetic
ForceLaw(d, a, beta) ==
  IF d < beta THEN RoundDiv(d * Scale, beta) - Scale
  ELSE IF d < Scale
       THEN RoundDiv(a * (Scale - RoundDiv(AbsI(2 * d - Scale - beta) * Scale,
                                           Scale - beta)), Scale)
  ELSE 0

SameSign(f, a) == (a > 0 => f > 0) /\ (a < 0 => f < 0) /\ (a = 0 => f = 0)

ForceCalled == op.name = "particleLifeForce"

\* C17: for d >= 0, a in [-1, 1] and beta in [0.01, 0.99], particleLifeForce(d, a,
\* beta) is d / beta - 1 when d < beta, a x (1 - |2d - 1 - beta| / (1 - beta)) when
\* beta <= d < 1 and 0 when d >= 1; so it is -1 at d = 0, 0 at d = beta and at
\* d = 1, and strictly between beta and 1 it has the sign of a.
C17_ForceLaw ==
  ForceCalled =>
    /\ op.result = ForceLaw(op.arg[1], op.arg[2], op.arg[3])
    /\ op.arg[1] = Zero => op.result = Neg(One)
    /\ op.arg[1] = op.arg[3] => op.result = Zero
    /\ op.arg[1] >= One => op.result = Zero
    /\ (op.arg[3] < op.arg[1] /\ op.arg[1] < One) => SameSign(op.result, op.arg[2])

\* a second call, in the middle zone with a repelling rule, has returned a
\* negative force and left the simulation as it was
C17_Witness ==
  /\ ForceCalled
  /\ pre = Snapshot
  /\ ops = MaxForceOps
  /\ op.arg[3] < op.arg[1] /\ op.arg[1] < One
  /\ op.arg[2] < Zero /\ op.result < Zero

\* updateConfig(c) corrected c.minRadius
AutoCorrected(c) == Gt(c.minRadius, c.maxRadius)

\* C18: after updateConfig(c), getConfig() has the fields of c and every field
\* equals that of c (the rules element by element, the rendering fields and
\* toggles unchanged), except minRadius when it was auto-corrected, which is
\* 0.3 x c.maxRadius.
C18_ConfigRoundTrip ==
  op.name = "updateConfig" =>
    /\ DOMAIN getConfig = DOMAIN op.arg
    /\ \A f \in DOMAIN op.arg \ {"rules", "minRadius"} : getConfig[f] = op.arg[f]
    /\ \A i, j \in Species : getConfig.rules[i][j] = op.arg.rules[i][j]
    /\ getConfig.minRadius = IF AutoCorrected(op.arg)
                             THEN Mul(op.arg.maxRadius, F(30)) ELSE op.arg.minRadius

\* an update with non-default rendering fields whose minRadius was corrected,
\* applied to a populated simulation configured otherwise before
C18_Witness ==
  /\ op.name = "updateConfig"
  /\ AutoCorrected(op.arg)
  /\ op.arg.colorMode = "density" /\ op.arg.mutationEnabled
  /\ pre.config.colorMode = "type"
  /\ Len(particles) > 0
  /\ getConfig.minRadius # op.arg.minRadius

HashOp == op.name \in {"SpatialHash", "add", "clear", "getNearby"}

\* the whole number of cells along an axis of extent w for unit cells
UnitCells(w) == IF w <= 0 THEN One ELSE ((w + Scale - 1) \div Scale) * Scale

\* C19: an index created with a cell size below 1 (zero and negative included)
\* is the index created with cell size 1; a world of width or height 0 has one
\* bucket along that axis; add and getNearby do not fail, every particle is
\* filed under finite cell numbers, and a particle added at a position of the
\* world is returned by the query at that position.
C19_DegenerateIndex ==
  /\ (op.name = "SpatialHash" /\ Lt(op.arg[1], One)) =>
        spatialHash = [null |-> FALSE, cellSize |-> One,
                       cellsW |-> UnitCells(op.arg[2]), cellsH |-> UnitCells(op.arg[3]),
                       grid |-> <<>>]
  /\ (op.name = "SpatialHash" /\ op.arg[2] = Zero) => spatialHash.cellsW = One
  /\ (op.name = "SpatialHash" /\ op.arg[3] = Zero) => spatialHash.cellsH = One
  /\ HashOp => ~err
  /\ HashOp => \A k \in 1 .. Len(spatialHash.grid) :
                 /\ spatialHash.grid[k][1][1] \in 0 .. 65535
                 /\ spatialHash.grid[k][1][2] \in 0 .. 65535
  /\ (op.name = "add" /\ spatialHash.cellSize = One) =>
        spatialHash.grid[Len(spatialHash.grid)][1] =
          << (op.arg[1] \div Scale) % 65536, (op.arg[2] \div Scale) % 65536 >>
  /\ op.name = "getNearby" =>
        \A i \in Indices :
          (particles[i].x = op.arg[1] /\ particles[i].y = op.arg[2]) =>
            particles[i].id \in SeqRange(op.result)

\* in a world of no extent, indexed with a cell size below 1, a particle was
\* added and then found by the query at its position
C19_Witness ==
  /\ op.name = "getNearby"
  /\ width = Zero /\ height = Zero
  /\ spatialHash.cellSize = One
  /\ Len(particles) > 0
  /\ particles[1].id \in SeqRange(op.result)

\* the bucket of a position, as whole cell numbers, and the nine buckets
\* ((cx + i) mod cellsW, (cy + j) mod cellsH) around the bucket of (x, y)
BucketOf(h, x, y) == << CellOf(h.cellSize, x) \div Scale, CellOf(h.cellSize, y) \div Scale >>

NineBuckets(h, x, y) ==
  { << (BucketOf(h, x, y)[1] + i) % (h.cellsW \div Scale),
       (BucketOf(h, x, y)[2] + j) % (h.cellsH \div Scale) >> : i, j \in {-1, 0, 1} }

\* C20 (as claimed): getNearby(x, y) returns precisely the particles added
\* since the last clear() whose bucket is one of the nine buckets around the
\* bucket of (x, y): none is omitted, none from another bucket is returned.
C20_AsClaimed ==
  op.name = "getNearby" =>
    SeqRange(op.result) =
      { particles[i].id : i \in { k \in Indices :
          BucketOf(spatialHash, particles[k].x, particles[k].y)
            \in NineBuckets(spatialHash, op.arg[1], op.arg[2]) } }

\* in worlds of fewer than 65536 cells along each axis the result is exact
C20_Below65536Cells ==
  (op.name = "getNearby" /\ spatialHash.cellsW < R(65536) /\ spatialHash.cellsH < R(65536)) =>
    SeqRange(op.result) =
      { particles[i].id : i \in { k \in Indices :
          BucketOf(spatialHash, particles[k].x, particles[k].y)
            \in NineBuckets(spatialHash, op.arg[1], op.arg[2]) } }

\* the number of times id occurs in the sequence q
Occurrences(q, id) == Cardinality({k \in 1 .. Len(q) : q[k] = id})

\* C21 (as claimed): every particle appears at most once in the result of one
\* getNearby call, whatever the cell size and the world size, worlds fewer
\* than three cells wide or high included.
C21_AsClaimed ==
  op.name = "getNearby" => \A i \in Indices : Occurrences(op.result, particles[i].id) <= 1

\* in an index at least three cells wide and high (and of fewer than 65536
\* cells) no particle is returned twice
C21_ThreeCells ==
  (op.name = "getNearby" /\ spatialHash.cellsW >= R(3) /\ spatialHash.cellsH >= R(3)
     /\ spatialHash.cellsW < R(65536) /\ spatialHash.cellsH < R(65536)) =>
    \A i \in Indices : Occurrences(op.result, particles[i].id) <= 1

\* the index entry of particle p for cell size cs
EntryOf(cs, p) == << Key(CellOf(cs, p.x), CellOf(cs, p.y)), p.id >>

\* C22: the index an executed step() used holds exactly one entry for every
\* particle of the population at the start of the step, under the bucket of
\* the position the particle had then, and nothing else: no particle that
\* left the population and no entry of an earlier step.
C22_IndexRebuilt ==
  StepExecuted =>
    /\ Len(spatialHash.grid) = Len(pre.particles)
    /\ \A i \in PreIndices :
         spatialHash.grid[i] = EntryOf(spatialHash.cellSize, pre.particles[i])
    /\ \A i \in PreIndices :
         Cardinality({k \in 1 .. Len(spatialHash.grid) :
                        spatialHash.grid[k][2] = pre.particles[i].id}) = 1
    /\ \A k \in 1 .. Len(spatialHash.grid) :
         \E i \in PreIndices : spatialHash.grid[k][2] = pre.particles[i].id

\* a step found the entries of an earlier step in the index, the particles
\* having moved to other buckets since, and replaced them
C22_Witness ==
  /\ StepExecuted /\ ~err
  /\ steps >= 2
  /\ pre.spatialHash.grid # <<>>
  /\ spatialHash.grid # pre.spatialHash.grid
  /\ Len(spatialHash.grid) = Len(pre.particles)

\* C23: whenever step() executes, the index it uses has cell size
\* max(1, maxRadius) for the current maxRadius and max(1, ceil(size / cell
\* size)) cells along each axis for the current width and height, whatever
\* setDimensions and updateConfig calls came before, in whatever order.
C23_IndexTracksConfig ==
  StepExecuted =>
    /\ ~spatialHash.null
    /\ spatialHash.cellSize = MathMax(config.maxRadius, One)
    /\ spatialHash.cellsW =
         MathMax(One, MathCeil(Div(width, MathMax(config.maxRadius, One))))
    /\ spatialHash.cellsH =
         MathMax(One, MathCeil(Div(height, MathMax(config.maxRadius, One))))

\* a step ran after a config update and a resize, in either order, that
\* changed the cell size the simulation was constructed with
C23_Witness ==
  /\ StepExecuted
  /\ ops = 3
  /\ config \notin StartConfigs
  /\ spatialHash.cellSize = R(3)
  /\ spatialHash.cellsW = R(4)

\* the number of particles other than i that have type t and lie within
\* 0.4 x maxRadius of particle i on the torus, in the population ps
NearOfType(ps, i, t) ==
  Cardinality({j \in 1 .. Len(ps) :
    /\ j # i /\ ps[j].type = t
    /\ LET dx == TorusDelta(ps[i].x, ps[j].x, width)
           dy == TorusDelta(ps[i].y, ps[j].y, height)
           r == Mul(config.maxRadius, F(40))
       IN dx * dx + dy * dy < r * r})

\* type t out-numbers particle i's own type around it: more than two
\* neighbours, strictly more than of its own type, and no type has more
Dominant(ps, i, t) ==
  /\ NearOfType(ps, i, t) > 2
  /\ NearOfType(ps, i, t) > NearOfType(ps, i, ps[i].type)
  /\ \A u \in Species : NearOfType(ps, i, R(u)) <= NearOfType(ps, i, t)

\* C24: step() changes a particle's type only when mutationEnabled is true,
\* only on every 8th invocation, and only to the type with the highest
\* neighbour count within 0.4 x maxRadius when that count exceeds 2 and
\* strictly exceeds the count of the particle's own type; with mutation
\* disabled no step() changes any particle's type.
C24_MutationSafety ==
  StepExecuted =>
    /\ Len(particles) = Len(pre.particles)
    /\ \A i \in Indices :
         particles[i].type # pre.particles[i].type =>
           /\ config.mutationEnabled
           /\ steps % 8 = 0
           /\ Dominant(pre.particles, i, particles[i].type)

\* the eighth step of a run with mutation disabled has run on a particle that
\* type 0 out-numbers, and the particle has kept its type
C24_Witness ==
  /\ StepExecuted /\ ~err
  /\ steps = 8
  /\ ~config.mutationEnabled
  /\ \E i \in Indices :
       /\ pre.particles[i].type = R(1)
       /\ Dominant(pre.particles, i, R(0))
       /\ particles[i].type = R(1)

\* the speed sqrt(vx^2 + vy^2) of a particle
SpeedOf(p) == MathSqrt(Add(Mul(p.vx, p.vx), Mul(p.vy, p.vy)))

\* the sum of the speeds of the particles of type t among the first n of ps
RECURSIVE SpeedSum(_, _, _)
SpeedSum(ps, t, n) ==
  IF n = 0 THEN Zero
  ELSE IF ps[n].type = R(t) THEN Add(SpeedSum(ps, t, n - 1), SpeedOf(ps[n]))
  ELSE SpeedSum(ps, t, n - 1)

\* snapshot s is the per-type mean speed of the population ps
MeanSpeeds(s, ps) ==
  \A t \in Species :
    s[t] = IF TypeCount(ps, t) = 0 THEN Zero
           ELSE Div(SpeedSum(ps, t, Len(ps)), R(TypeCount(ps, t)))

\* a step has just taken a sample
SampleTaken ==
  StepExecuted /\ ~err /\ steps % EnergySamplePeriod = 0 /\ Len(taken) > 0

\* C25 (as claimed): every snapshot has one entry per species; entry t is the
\* sum of the speeds of the particles of type t at sampling time divided by
\* their number, or 0 when there is none; every entry is finite and >= 0.
C25_AsClaimed ==
  /\ \A k \in 1 .. Len(taken) :
       /\ DOMAIN taken[k] = Species
       /\ \A t \in Species : IsFinite(taken[k][t]) /\ Ge(taken[k][t], Zero)
  /\ SampleTaken => MeanSpeeds(taken[Len(taken)], particles)

\* the part about the content alone: one entry per species, each the mean
\* speed of its type at sampling time and never negative
C25_MeanSpeeds ==
  /\ \A k \in 1 .. Len(taken) :
       /\ DOMAIN taken[k] = Species
       /\ \A t \in Species : Ge(taken[k][t], Zero)
  /\ SampleTaken => MeanSpeeds(taken[Len(taken)], particles)

\* the population ps without its k-th particle
WithoutAt(ps, k) ==
  [i \in 1 .. (Len(ps) - 1) |-> IF i < k THEN ps[i] ELSE ps[i + 1]]

\* the population that the step just taken would have left had it started
\* from ps under the pointer force mf, with the random number generator in
\* state r
StepWith(ps, mf, r) ==
  MoveLoop(Mul(pre.config.maxRadius, F(50)), pre.width, pre.height, 1,
           [ps |-> ForceLoop(pre.config, pre.width, pre.height, mf,
                             [pre.spatialHash EXCEPT
                                !.grid = GridBuild(<<>>, pre.spatialHash.cellSize, ps, 1)],
                             1, [ps |-> ps, thrown |-> FALSE, log |-> <<>>]).ps,
            rng |-> r, maxSpd |-> Zero]).ps

SameMotion(p, q) == p.x = q.x /\ p.y = q.y /\ p.vx = q.vx /\ p.vy = q.vy

\* particle k alone had a position that is not finite when the step began, all
\* other particles being finite in every field, inside the world and of a
\* valid type
OnlyCorrupt(k) ==
  /\ StepExecuted /\ ~err
  /\ PositiveWorld(pre.width, pre.height)
  /\ Len(particles) = Len(pre.particles)
  /\ ~IsFinite(pre.particles[k].x) \/ ~IsFinite(pre.particles[k].y)
  /\ \A i \in PreIndices : IsSpecies(pre.particles[i].type)
  /\ \A i \in PreIndices \ {k} :
       AllFinite(pre.particles[i]) /\ InWorld(pre.particles[i], pre.width, pre.height)

\* C26 (as claimed): when one particle has a non-finite position at the start
\* of a step, every other particle has after the step the velocity and the
\* position it would have after the same step without that particle.
C26_AsClaimed ==
  \A k \in PreIndices :
    OnlyCorrupt(k) =>
      \E r \in 1 .. RandLen :
        \A i \in PreIndices \ {k} :
          SameMotion(particles[i],
                     StepWith(WithoutAt(pre.particles, k), pre.mouseForce,
                              r)[IF i < k THEN i ELSE i - 1])

\* C27: step() only reads the pointer-force descriptor: active, x, y, radius
\* and strength are after every step() what they were before it, so an active
\* force stays active step after step until the input layer clears it.
C27_PointerKept ==
  op.name = "step" =>
    /\ mouseForce.active = pre.mouseForce.active
    /\ mouseForce.x = pre.mouseForce.x
    /\ mouseForce.y = pre.mouseForce.y
    /\ mouseForce.radius = pre.mouseForce.radius
    /\ mouseForce.strength = pre.mouseForce.strength

\* the second step in a row under one press of the pointer: the force is
\* still active and has moved a particle otherwise than an idle pointer would
C27_Witness ==
  /\ StepExecuted /\ ~err
  /\ ops = 3 /\ steps = 2
  /\ mouseForce.active /\ mouseForce.strength # Zero
  /\ \A r \in 1 .. RandLen :
       \E i \in Indices :
         ~SameMotion(particles[i], StepWith(pre.particles, IdlePointer, r)[i])

\* C28 (as claimed): in every reachable state every particle's type is an
\* integer in [0, 6), whichever of initializeParticles and
\* initializeWithLayout, for every layout kind and particleCount, built the
\* population.
C28_AsClaimed == \A i \in Indices : IsSpecies(particles[i].type)

\* a population just built in a world of positive width and height has valid
\* types only
C28_SizedWorld ==
  (Initialized /\ PositiveWorld(width, height)) =>
    \A i \in Indices : IsSpecies(particles[i].type)

\* populations ps and qs hold the same positions, velocities and types at
\* every index
SameArrays(ps, qs) ==
  /\ Len(ps) = Len(qs)
  /\ \A i \in 1 .. Len(ps) : SameMotion(ps[i], qs[i]) /\ ps[i].type = qs[i].type

\* the array just built is the one the layout gives for the kind, the particle
\* count and the world size whatever the random number generator holds, so
\* that any two calls with these inputs build the same array
BuiltAlike ==
  \A r \in 1 .. RandLen :
    SameArrays(particles, Layout(op.arg, config.particleCount, width, height, r, 1).ps)

\* C29 (as claimed): two calls of initializeWithLayout(kind) with the same
\* kind, particleCount and world size build identical particle arrays, for
\* every kind in {bigbang, spiral, grid, ring, clusters}.
C29_AsClaimed ==
  (op.name = "initializeWithLayout"
     /\ op.arg \in {"bigbang", "spiral", "grid", "ring", "clusters"}) => BuiltAlike

\* C29, amended: the same for the kinds spiral, grid and ring, which draw no
\* random number.
C29_DrawFreeLayouts ==
  (op.name = "initializeWithLayout" /\ op.arg \in {"spiral", "grid", "ring"}) =>
    BuiltAlike

\* a second call in a row of the ring layout has rebuilt the seven particles
\* of the first in a world of positive size
C29_Witness ==
  /\ op.name = "initializeWithLayout" /\ op.arg = "ring"
  /\ ops = 3
  /\ PositiveWorld(width, height)
  /\ Len(particles) = 7
  /\ SameArrays(particles, pre.particles)
  /\ particles[1].id # pre.particles[1].id
  /\ particles[1].x # particles[7].x

\* the displacement logged for a neighbour of particle i is the wrapped
\* displacement between the positions the two had when the step began
FromStartPositions(i, e) ==
  /\ e.dx = WrapDelta(Sub(ParticleById(pre.particles, e.id).x, pre.particles[i].x),
                      width)
  /\ e.dy = WrapDelta(Sub(ParticleById(pre.particles, e.id).y, pre.particles[i].y),
                      height)

\* particle i has been advanced from its start position by its own velocity,
\* or has been reset to rest
OwnVelocityOnly(i) ==
  \/ /\ particles[i].x = WrapPos(Add(pre.particles[i].x, particles[i].vx), width)
     /\ particles[i].y = WrapPos(Add(pre.particles[i].y, particles[i].vy), height)
  \/ particles[i].vx = Zero /\ particles[i].vy = Zero

\* C30: within one step() the force on every particle is computed from the
\* positions all particles had at the start of the step: no position changes
\* before every velocity has been updated, and the position pass advances a
\* particle by its own velocity only.
C30_TwoPhase ==
  (StepExecuted /\ ~err) =>
    /\ Len(particles) = Len(pre.particles)
    /\ Len(forceLog) = Len(particles)
    /\ \A i \in Indices :
         /\ \A e \in SeqRange(forceLog[i]) : FromStartPositions(i, e)
         /\ OwnVelocityOnly(i)

\* a particle has felt a neighbour that comes before it in the array and that
\* the same step has moved
C30_Witness ==
  /\ StepExecuted /\ ~err
  /\ \E i \in Indices :
       \E e \in SeqRange(forceLog[i]) :
         \E j \in 1 .. (i - 1) :
           /\ pre.particles[j].id = e.id
           /\ AllFinite(pre.particles[j]) /\ AllFinite(pre.particles[i])
           /\ particles[j].x # pre.particles[j].x
           /\ particles[i].vx # pre.particles[i].vx

====
